---- MODULE Spec2Model ----
(***************************************************************************)
(* A model of termvisage's concurrent back-end:                            *)
(*   - the grid rendering / grid thumbnailing pipeline of tui/render.py    *)
(*     together with the part of the UI thread that feeds it               *)
(*     (widgets.Image.render, render.resync_grid_rendering),               *)
(*   - the recursive directory scan of cli.check_dir and its distribution  *)
(*     over checker processes by cli.manage_checkers,                      *)
(*   - a session from cli.main to the clean-up of __main__.main,           *)
(*   - the render managers of tui/render.py with their workers, and the    *)
(*     renders of single images, and                                       *)
(*   - the order of a directory listing (tui/main.py: sort_key_lexi).      *)
(* Every thread of the program is a process of the model with its own      *)
(* program counter; one action is one step of a thread between two         *)
(* accesses to shared state.                                               *)
(***************************************************************************)
EXTENDS Integers, Sequences, FiniteSets, TLC

\* ------------------------------------------------------------------ bounds

\* Number of calls of resync_grid_rendering() in one behaviour.
MaxResyncs == 2
\* Number of calls of resync_grid_rendering() in one behaviour of ResyncSpec:
\* the call that opens the grid and two more, one right after the other.
MaxResyncCalls == 3
\* Number of grid cells the UI thread requests in one behaviour.
MaxRequests == 2
\* Number of checker processes of the parallel scan (n_checkers).
N_CHECKERS == 2
\* Number of thumbnail files GridThumbnailer makes in one session.
MaxThumbnailFiles == 2
\* Number of GridRenderer workers (n_renderers).
N_RENDERERS == 2
\* Number of jobs a render manager sends to its workers in one behaviour.
MaxJobs == 2
\* Size of frame_render_out (20 in render.py:241).
FRAME_RENDER_OUT_SIZE == 1
\* Number of frames of an animated image.
N_FRAMES == 1
\* Items MainThread puts on anim_render_queue.
MaxAnimRequests == 3
\* Largest maximum of the thumbnail cache in the cache scenarios.
MaxCacheSize == 2
\* Thumbnails generated in one behaviour of the cache scenarios.
MaxGenerated == 4
\* Distinct images (pixel contents) among the sources of the cache scenarios.
MaxPixels == 3
\* Number of renders the Image widgets request in one behaviour.
MaxImageRequests == 3
\* Longest name of a directory entry, in characters.
MaxNameLen == 3
\* Most entries of a listed directory.
MaxEntries == 3
\* Number of positions and actions the user sends to display_images.
MaxNavInputs == 4
\* Highest position of the menu the user moves the cursor to.
MaxMenuPos == 1

\* Most calls of update_contents for one source.
MaxUpdates == 3
\* Deepest sub-directory, below its source, whose result is merged.
MaxSubDirDepth == 2
\* Deepest sub-directory within a result that is merged.
MaxResultDepth == 1

\* Most thumbnails generated, and their different contents, where the cache
\* is followed lock by lock.
MaxLockGenerated == 3
MaxLockPixels == 2

\* --------------------------------------------------- program configuration

\* render.py:502, the modulus of grid_batch_no
BatchModulus == 1000
\* config option "thumbnail cache" (tui/__init__.py:80), the cache's maximum
thumbnail_cache_option == 1

\* The images of the directory shown in the grid.
Sources == {"/d/a", "/d/b", "/d/c"}

\* os.path.basename, on the paths of the model
Basename(s) ==
    CASE s = "/d/a" -> "a"
      [] s = "/d/b" -> "b"
      [] s = "/d/c" -> "c"
      [] OTHER -> s

\* The thumbnail's pixel bytes (img.tobytes()) of a source: /d/a and /d/b are
\* pixel-identical, /d/c differs.
Pixels(s) == IF s = "/d/c" THEN 2 ELSE 1

\* Python's None, as a path and as a thumbnail file
NoSource == "None"
NoThumb == 0

VARIABLES
    \* ---- MainThread (urwid loop): Image.render and resync_grid_rendering
    ui_pc,                    \* position of MainThread
    ui_src,                   \* source whose cell MainThread is rendering
    grid_active,              \* tui.main.grid_active (Event)
    resyncs,                  \* calls of resync_grid_rendering() so far
    requests,                 \* cells requested so far
    \* ---- module state of tui/render.py
    grid_renderer_in_sync,    \* Event
    grid_thumbnailer_in_sync, \* Event
    grid_render_queue,        \* Queue of (source, thumbnail) | None
    grid_thumbnail_queue,     \* Queue of source | None
    thumbnail_sources,        \* dict thumbnail -> tuple of sources (ordered)
    thumbnail_cache,          \* dict source -> thumbnail
    extra_thumbnail_cache,    \* dict source -> thumbnail
    thumbnails_being_rendered,\* defaultdict thumbnail -> set of sources
    grid_cache,               \* Image._ti_grid_cache: basename -> canvas | ...
    \* ---- GridRenderManager (manage_grid_renders)
    grm_pc,
    grid_batch_no,
    grid_render_in,
    grid_render_out,
    \* ---- GridRenderer (render_grid_images), one worker
    worker_job,
    \* ---- GridThumbnailManager (manage_grid_thumbnails)
    gtm_pc,
    thumbnail_in,
    thumbnail_out,
    not_generating,           \* Event
    thumbnails_to_be_deleted, \* set of thumbnails
    \* ---- GridThumbnailer (generate_grid_thumbnails)
    gen_pc,
    gen_job,
    deduplicated_to_be_deleted,
    thumbnail_files,          \* the thumbnail directory: file -> pixel bytes
    n_thumbnails,             \* files mkstemp has created so far
    \* ---- history
    batch0,                   \* grid_batch_no of the initial state
    grm_resyncs,              \* history: resync blocks GridRenderManager entered
    gtm_resyncs,              \* history: resync blocks GridThumbnailManager entered
    enqueued,                 \* source -> jobs MainThread has put for it since
                              \* the last call of resync_grid_rendering()
    processed,                \* sources whose generated thumbnail
                              \* GridThumbnailManager has taken off thumbnail_out
    \* ---- Checker (cli.py): the directory scan
    fs,                       \* the file system being scanned
    Recursive,                \* cli.RECURSIVE (args.recursive)
    MAX_DEPTH,                \* cli.MAX_DEPTH (args.max_depth)
    scan_pc,                  \* position of the checker
    cwd,                      \* os.getcwd()
    _depth,                   \* cli._depth
    _links,                   \* the list passed on as check_dir(_links=...)
    stack,                    \* the active calls of check_dir, innermost last
    scan_result,              \* what the outermost check_dir returned
    entered,                  \* history: os.getcwd() after the chdir of each
                              \* active call of check_dir, innermost last
    \* ---- the parallel scan (cli.py): main, CheckManager and the checkers
    to_put,                   \* directory sources main has still to put
    sources_finished,         \* dir_queue.sources_finished
    dir_queue,                \* mp_Queue of (source, links, subdir, _depth)
    progress_queue,           \* mp_Queue of (checker_no, check)
    content_queue,            \* mp_Queue of (source, content_path, result)
    progress_updated,         \* mp_Event
    content_updated,          \* mp_Event
    free_checkers,            \* Value("i")
    chk_pc,                   \* position of each checker process
    chk_job,                  \* what each checker took off dir_queue last
    chk_result,               \* `result` of each checker
    chk_alive,                \* Process.is_alive() of each checker, unless
                              \* it has ended by itself
    mgr_pc,                   \* position of CheckManager
    mgr_n,                    \* n of `for n, checker in enumerate(checkers)`
    checks_in_progress,       \* manage_checkers' list
    contents,                 \* the content paths merged into `contents`
    dir_images,               \* the sources appended to `images`
    \* ---- the session (__main__.main around cli.main)
    main_pc,                  \* position of __main__.main / cli.main
    exit_way,                 \* how cli.main ended
    TEMP_DIR,                 \* __main__.TEMP_DIR
    temp_dir,                 \* whether the temporary data directory exists
    thumbnail_files_n,        \* entries of its thumbnails directory
    loading_indicator,        \* the LoadingIndicator thread
    multi_logger,             \* the MultiLogger thread
    grid_thumbnailer,         \* the GridThumbnailer thread of the session
    \* ---- a render manager and its workers (tui/render.py)
    rm_kind,                  \* which manager: image, anim, grid or thumbnail
    rm_pc,                    \* position of the manager
    rm_how,                   \* how the manager left its loop
    rm_sent,                  \* jobs the manager has put on render_in
    rm_last,                  \* type of the last job put on frame_render_in
    sentinels,                \* sentinels the manager has put on render_in
    render_in,                \* the workers' input queue
    render_out,               \* the workers' output queue
    rw_pc,                    \* position of each worker
    rw_job,                   \* the job each worker took last
    rw_block,                 \* render_frames: `block`
    rw_frames,                \* render_frames: frames the animator has left
    rw_taken,                 \* history: sentinels each worker has taken
    \* ---- ImageRenderManager, ImageRenderer and the Image widgets
    undecodable,              \* the widgets whose image cannot be rendered
    image_box,                \* image_box.original_widget
    image_requests,           \* render requests made so far
    image_render_queue,       \* Queue of (image_w, size, alpha)
    image_render_in,          \* Queue of (source, size, alpha, faulty)
    image_render_out,         \* Queue of (render, rendered_size)
    irm_pc,                   \* position of ImageRenderManager
    image_w,                  \* manage_image_renders: image_w
    last_image_w,             \* manage_image_renders: last_image_w
    ir_job,                   \* the job ImageRenderer has taken
    _ti_faulty,               \* Image._ti_faulty of each widget
    _ti_rendering,            \* Image._ti_rendering of each widget
    _ti_canv,                 \* Image._ti_canv of each widget
    fault_logs,               \* history: faults logged for each widget
    \* ---- scan_dir's listing of a directory
    dir_entries,              \* what os.scandir(dir) yields, in any order
    _entries,                 \* scan_dir: _entries, or <<>> before the sort
    \* ---- display_images, GridScanner and MenuScanner (tui/main.py)
    tui_cwd,                  \* os.getcwd() of the TUI process
    nav_pc,                   \* position of display_images (MainThread)
    nav_pos,                  \* display_images: pos
    frames,                   \* the active calls of display_images
    nav_inputs,               \* positions and actions sent so far
    lists,                    \* the list objects: item lists by identity
    _grid_list,               \* tui.main._grid_list
    next_grid,                \* Queue(1) of (dir, contents)
    next_menu,                \* Queue(1) of (items, contents, menu_is_complete)
    grid_acknowledge,         \* Event
    grid_scan_done,           \* Event
    menu_acknowledge,         \* Event
    menu_change,              \* Event
    menu_scan_done,           \* Event
    gs_pc,                    \* position of GridScanner
    gs_dir,                   \* scan_dir_grid: dir
    grid_list,                \* scan_dir_grid: grid_list
    gs_entries,               \* GridScanner's scan_dir: entries still to come
    gs_cwd,                   \* working directory at its os.scandir(dir)
    ms_pc,                    \* position of MenuScanner
    ms_items,                 \* scan_dir_menu: items
    ms_entries,               \* MenuScanner's scan_dir: entries still to come
    ms_cwd,                   \* working directory at its os.scandir(".")
    \* ---- manage_anim_renders and render_frames (tui/render.py)
    MULTI,                    \* logging.MULTI
    _ti_anim_ongoing,         \* Image._ti_anim_ongoing of each widget
    _ti_frame,                \* Image._ti_frame of each widget is a frame
    _ti_anim_finished,        \* Image._ti_anim_finished of each widget
    anim_render_queue,        \* Queue of (data, size, forced)
    anim_requests,            \* history: items put on anim_render_queue
    arm_pc,                   \* position of AnimRenderManager
    arm_data,                 \* manage_anim_renders: data
    anim_image_w,             \* manage_anim_renders: image_w
    frame_duration,           \* manage_anim_renders: frame_duration is not None
    arm_site,                 \* which call of next_frame() is running
    arm_frame,                \* next_frame: bool(frame)
    frame_render_in,          \* Queue of (data, size, alpha)
    frame_render_out,         \* Queue(20) of frames, as AnimRenderManager sees it
    frame_render_out_buffer,  \* frames put that have not appeared yet (MULTI)
    ready,                    \* Event
    frame_jobs,               \* history: animations sent to FrameRenderer
    fr_pc,                    \* position of FrameRenderer
    fr_data,                  \* render_frames: data
    fr_block,                 \* render_frames: block
    animator,                 \* render_frames: animation of the open animator
    fr_left,                  \* frames the animator has left
    THUMBNAIL_CACHE_SIZE,     \* render.THUMBNAIL_CACHE_SIZE
    source_dir,               \* update_contents: dir, the source being merged into
    source_contents,          \* contents[source], the content tree of the source
    last_subdir,              \* update_contents: subdir of the last call
    last_subcontents,         \* update_contents: subcontents of the last call
    n_updates,                \* history: calls of update_contents
    thumbnail_render_lock,    \* render.thumbnail_render_lock: the thread that holds it
    other_thumbnail           \* cache_thumbnail: other_thumbnail

uiVars == <<ui_pc, ui_src, grid_active, resyncs, requests, enqueued>>
flagVars == <<grid_renderer_in_sync, grid_thumbnailer_in_sync>>
cacheVars == <<thumbnail_sources, thumbnail_cache, extra_thumbnail_cache,
               thumbnails_being_rendered, thumbnails_to_be_deleted>>
grmVars == <<grm_pc, grid_batch_no, grid_render_in, grid_render_out>>
gtmVars == <<gtm_pc, thumbnail_in, thumbnail_out>>
genVars == <<gen_pc, gen_job, deduplicated_to_be_deleted, n_thumbnails>>
scanVars == <<fs, Recursive, MAX_DEPTH, scan_pc, cwd, _depth, _links, stack,
              scan_result, entered>>
parVars == <<to_put, sources_finished, dir_queue, progress_queue, content_queue,
             progress_updated, content_updated, free_checkers, chk_pc, chk_job,
             chk_result, chk_alive, mgr_pc, mgr_n, checks_in_progress, contents, dir_images>>
sessVars == <<main_pc, exit_way, TEMP_DIR, temp_dir, thumbnail_files_n,
              loading_indicator, multi_logger, grid_thumbnailer>>
\* The variables of the models that stand beside the grid pipeline, the
\* directory scan and the parallel scan.
rwVars == <<rm_kind, rm_pc, rm_how, rm_sent, rm_last, sentinels, render_in,
            render_out, rw_pc, rw_job, rw_block, rw_frames, rw_taken>>
imVars == <<undecodable, image_box, image_requests, image_render_queue,
            image_render_in, image_render_out, irm_pc, image_w, last_image_w,
            ir_job, _ti_faulty, _ti_rendering, _ti_canv, fault_logs>>
sortVars == <<dir_entries, _entries>>
navVars == <<tui_cwd, nav_pc, nav_pos, frames, nav_inputs, lists, _grid_list,
             next_grid, next_menu, grid_acknowledge, grid_scan_done,
             menu_acknowledge, menu_change, menu_scan_done, gs_pc, gs_dir,
             grid_list, gs_entries, gs_cwd, ms_pc, ms_items, ms_entries, ms_cwd>>
animVars == <<MULTI, _ti_anim_ongoing, _ti_frame, _ti_anim_finished,
              anim_render_queue, anim_requests, arm_pc, arm_data, anim_image_w,
              frame_duration, arm_site, arm_frame, frame_render_in,
              frame_render_out, frame_render_out_buffer, ready, frame_jobs,
              fr_pc, fr_data, fr_block, animator, fr_left>>
confVars == <<THUMBNAIL_CACHE_SIZE>>
mergeVars == <<source_dir, source_contents, last_subdir, last_subcontents,
               n_updates>>
lockVars == <<thumbnail_render_lock, other_thumbnail>>
auxVars == <<sessVars, rwVars, imVars, sortVars, navVars, animVars, confVars,
             mergeVars, lockVars>>
resyncVars == <<grm_resyncs, gtm_resyncs>>
histVars == <<batch0, processed, resyncVars, scanVars, parVars, auxVars>>
queueVars == <<grid_render_queue, grid_thumbnail_queue>>

vars == <<ui_pc, ui_src, grid_active, resyncs, requests,
          grid_renderer_in_sync, grid_thumbnailer_in_sync,
          grid_render_queue, grid_thumbnail_queue,
          thumbnail_sources, thumbnail_cache, extra_thumbnail_cache,
          thumbnails_being_rendered, grid_cache,
          grm_pc, grid_batch_no, grid_render_in, grid_render_out,
          worker_job,
          gtm_pc, thumbnail_in, thumbnail_out, not_generating,
          thumbnails_to_be_deleted,
          gen_pc, gen_job, deduplicated_to_be_deleted, thumbnail_files,
          n_thumbnails, batch0, grm_resyncs, gtm_resyncs, enqueued, processed,
          fs, Recursive, MAX_DEPTH, scan_pc, cwd, _depth, _links, stack,
          scan_result, entered,
          to_put, sources_finished, dir_queue, progress_queue, content_queue,
          progress_updated, content_updated, free_checkers, chk_pc, chk_job,
          chk_result, chk_alive, mgr_pc, mgr_n, checks_in_progress, contents, dir_images,
          main_pc, exit_way, TEMP_DIR, temp_dir, thumbnail_files_n,
          loading_indicator, multi_logger, grid_thumbnailer,
          rm_kind, rm_pc, rm_how, rm_sent, rm_last, sentinels, render_in,
          render_out, rw_pc, rw_job, rw_block, rw_frames, rw_taken,
          undecodable, image_box, image_requests, image_render_queue,
          image_render_in, image_render_out, irm_pc, image_w, last_image_w,
          ir_job, _ti_faulty, _ti_rendering, _ti_canv, fault_logs,
          dir_entries, _entries,
          tui_cwd, nav_pc, nav_pos, frames, nav_inputs, lists, _grid_list,
          next_grid, next_menu, grid_acknowledge, grid_scan_done,
          menu_acknowledge, menu_change, menu_scan_done, gs_pc, gs_dir,
          grid_list, gs_entries, gs_cwd, ms_pc, ms_items, ms_entries, ms_cwd,
          MULTI, _ti_anim_ongoing, _ti_frame, _ti_anim_finished,
          anim_render_queue, anim_requests, arm_pc, arm_data, anim_image_w,
          frame_duration, arm_site, arm_frame, frame_render_in,
          frame_render_out, frame_render_out_buffer, ready, frame_jobs,
          fr_pc, fr_data, fr_block, animator, fr_left, THUMBNAIL_CACHE_SIZE,
          source_dir, source_contents, last_subdir, last_subcontents,
          n_updates, thumbnail_render_lock, other_thumbnail>>

\* ----------------------------------------------------------------- values

\* A dict with key k set to v / with key k deleted.
DictSet(d, k, v) == [x \in (DOMAIN d) \cup {k} |-> IF x = k THEN v ELSE d[x]]
DictDel(d, k) == [x \in (DOMAIN d) \ {k} |-> d[x]]
EmptyDict == <<>>

\* The elements of a tuple.
Range(seq) == {seq[i] : i \in DOMAIN seq}
Last(seq) == seq[Len(seq)]

\* An item of grid_thumbnail_queue and of thumbnail_in: a source path.  `ep` is
\* history: the number of resyncs that had been called when MainThread
\* requested the cell.
ThumbJob(s, ep) == [source |-> s, ep |-> ep]
\* An item of grid_render_queue: (source, thumbnail).
RenderJob(s, t, ep) == [source |-> s, thumbnail |-> t, ep |-> ep]
\* The batch delimiter, None, on either queue.
ThumbDelimiter == ThumbJob(NoSource, -1)
RenderDelimiter == RenderJob(NoSource, NoThumb, -1)

\* No job in the worker / in the generator.
NoJob == [batch_no |-> -1, source |-> NoSource, thumbnail |-> NoThumb, ep |-> -1]
NoThumbJob == ThumbJob(NoSource, -1)

\* The Ellipsis, the "being rendered" mark of Image._ti_grid_cache.
RenderingMark == [batch_no |-> -1, source |-> "...", render |-> FALSE, ep |-> -1]
\* The canvas made of a result: an ImageCanvas (render) or the faulty image.
Canvas(r) == [batch_no |-> r.batch_no, source |-> r.source, render |-> r.render,
              ep |-> r.ep]

\* --------------------------------------------------------------- MainThread

\* tui/main.py display_images: a directory entry is selected.
UIOpenGrid ==
    /\ ui_pc = "idle"
    /\ ~grid_active
    /\ grid_active' = TRUE
    /\ UNCHANGED <<enqueued, ui_pc, ui_src, resyncs, requests, flagVars, queueVars,
                   cacheVars, grid_cache, grmVars, worker_job, gtmVars,
                   not_generating, genVars, thumbnail_files, histVars>>

\* tui/main.py display_images: an image entry or ".." is selected.
UILeaveGrid ==
    /\ ui_pc = "idle"
    /\ grid_active
    /\ grid_active' = FALSE
    /\ UNCHANGED <<enqueued, ui_pc, ui_src, resyncs, requests, flagVars, queueVars,
                   cacheVars, grid_cache, grmVars, worker_job, gtmVars,
                   not_generating, genVars, thumbnail_files, histVars>>

\* widgets.Image.render, "Grid images": the cell is not in the grid cache, a
\* job is put on the queue the image's size selects.
UIRenderPut_Enqueue(s, large) ==
    IF large
    THEN /\ grid_thumbnail_queue' = Append(grid_thumbnail_queue, ThumbJob(s, resyncs))
         /\ UNCHANGED grid_render_queue
    ELSE /\ grid_render_queue' = Append(grid_render_queue, RenderJob(s, NoThumb, resyncs))
         /\ UNCHANGED grid_thumbnail_queue

\* A render that looks up no grid cache.
UIRenderPut_Always(s) == TRUE

\* widgets.Image.render, "Grid images": whether a job is put for the cell.
UIRenderPut_NotCached(s) == Basename(s) \notin DOMAIN grid_cache

UIRenderPut(s, large) ==
    /\ ui_pc = "idle"
    /\ grid_active
    /\ resyncs > 0
    /\ requests < MaxRequests
    /\ UIRenderPut_NotCached(s)
    /\ UIRenderPut_Enqueue(s, large)
    /\ ui_pc' = "mark"
    /\ ui_src' = s
    /\ requests' = requests + 1
    /\ enqueued' = [enqueued EXCEPT ![s] = @ + 1]
    /\ UNCHANGED <<grid_active, resyncs, flagVars, cacheVars, grid_cache,
                   grmVars, worker_job, gtmVars, not_generating, genVars,
                   thumbnail_files, histVars>>

\* widgets.Image.render, "Grid images": the cell is in the grid cache, the
\* placeholder (for the "being rendered" mark) or the canvas is returned.
UIRenderCached(s) ==
    /\ ui_pc = "idle"
    /\ grid_active
    /\ ~UIRenderPut_NotCached(s)
    /\ UNCHANGED vars

\* widgets.Image.render: _ti_grid_cache[basename] = ...
UIRenderMark ==
    /\ ui_pc = "mark"
    /\ grid_cache' = DictSet(grid_cache, Basename(ui_src), RenderingMark)
    /\ ui_pc' = "idle"
    /\ ui_src' = NoSource
    /\ UNCHANGED <<enqueued, grid_active, resyncs, requests, flagVars, queueVars,
                   cacheVars, grmVars, worker_job, gtmVars, not_generating,
                   genVars, thumbnail_files, histVars>>

\* resync_grid_rendering: grid_renderer_in_sync.clear().  Its callers call it
\* with the grid active (main.py display_images, keys.py resize); calls is the
\* number of calls of one behaviour.
ResyncClearRendererWithin(calls) ==
    /\ ui_pc = "idle"
    /\ grid_active
    /\ resyncs < calls
    /\ grid_renderer_in_sync' = FALSE
    /\ resyncs' = resyncs + 1
    /\ enqueued' = [x \in Sources |-> 0]
    /\ ui_pc' = "clearT"
    /\ UNCHANGED <<ui_src, grid_active, requests, grid_thumbnailer_in_sync,
                   queueVars, cacheVars, grid_cache, grmVars, worker_job,
                   gtmVars, not_generating, genVars, thumbnail_files, histVars>>

ResyncClearRenderer == ResyncClearRendererWithin(MaxResyncs)

\* resync_grid_rendering: grid_thumbnailer_in_sync.clear()
ResyncClearThumbnailer ==
    /\ ui_pc = "clearT"
    /\ grid_thumbnailer_in_sync' = FALSE
    /\ ui_pc' = "waitR"
    /\ UNCHANGED <<enqueued, ui_src, grid_active, resyncs, requests, grid_renderer_in_sync,
                   queueVars, cacheVars, grid_cache, grmVars, worker_job,
                   gtmVars, not_generating, genVars, thumbnail_files, histVars>>

\* resync_grid_rendering: grid_renderer_in_sync.wait()
ResyncWaitRenderer ==
    /\ ui_pc = "waitR"
    /\ grid_renderer_in_sync
    /\ ui_pc' = "waitT"
    /\ UNCHANGED <<enqueued, ui_src, grid_active, resyncs, requests, flagVars, queueVars,
                   cacheVars, grid_cache, grmVars, worker_job, gtmVars,
                   not_generating, genVars, thumbnail_files, histVars>>

\* resync_grid_rendering: grid_thumbnailer_in_sync.wait()
ResyncWaitThumbnailer ==
    /\ ui_pc = "waitT"
    /\ grid_thumbnailer_in_sync
    /\ ui_pc' = "putR"
    /\ UNCHANGED <<enqueued, ui_src, grid_active, resyncs, requests, flagVars, queueVars,
                   cacheVars, grid_cache, grmVars, worker_job, gtmVars,
                   not_generating, genVars, thumbnail_files, histVars>>

\* resync_grid_rendering: grid_render_queue.put(None)
ResyncPutRenderDelimiter ==
    /\ ui_pc = "putR"
    /\ grid_render_queue' = Append(grid_render_queue, RenderDelimiter)
    /\ ui_pc' = "putT"
    /\ UNCHANGED <<enqueued, ui_src, grid_active, resyncs, requests, flagVars,
                   grid_thumbnail_queue, cacheVars, grid_cache, grmVars,
                   worker_job, gtmVars, not_generating, genVars,
                   thumbnail_files, histVars>>

\* resync_grid_rendering: grid_thumbnail_queue.put(None)
ResyncPutThumbnailDelimiter ==
    /\ ui_pc = "putT"
    /\ grid_thumbnail_queue' = Append(grid_thumbnail_queue, ThumbDelimiter)
    /\ ui_pc' = "idle"
    /\ UNCHANGED <<enqueued, ui_src, grid_active, resyncs, requests, flagVars,
                   grid_render_queue, cacheVars, grid_cache, grmVars,
                   worker_job, gtmVars, not_generating, genVars,
                   thumbnail_files, histVars>>


\* -------------------------------------------- GridRenderManager (render.py)

\* manage_grid_renders.mark_thumbnail_rendered raises KeyError: the thumbnail
\* is no key of the defaultdict (an empty set is made, len != 1) or *source* is
\* not among several sources.
MarkRaises(source, thumbnail) ==
    \/ thumbnail \notin DOMAIN thumbnails_being_rendered
    \/ /\ Cardinality(thumbnails_being_rendered[thumbnail]) # 1
       /\ source \notin thumbnails_being_rendered[thumbnail]

\* manage_grid_renders.mark_thumbnail_rendered: thumbnails_being_rendered after
MarkedBeingRendered(source, thumbnail) ==
    IF thumbnail \notin DOMAIN thumbnails_being_rendered
    THEN DictSet(thumbnails_being_rendered, thumbnail, {})
    ELSE IF Cardinality(thumbnails_being_rendered[thumbnail]) = 1
         THEN DictDel(thumbnails_being_rendered, thumbnail)
         ELSE [thumbnails_being_rendered EXCEPT ![thumbnail] = @ \ {source}]

\* manage_grid_renders.mark_thumbnail_rendered: extra_thumbnail_cache after
MarkedExtraCache(source, thumbnail) ==
    IF MarkRaises(source, thumbnail)
    THEN extra_thumbnail_cache
    ELSE DictDel(extra_thumbnail_cache, source)

\* manage_grid_renders, top of the loop: the wait for the grid to be active or
\* a result to be out, then `if not in_sync.is_set()`: the resync block starts
\* with grid_cache.clear() and in_sync.set().
GRM_Top ==
    /\ grm_pc = "top"
    /\ grid_active \/ grid_render_out # <<>>
    /\ IF ~grid_renderer_in_sync
       THEN /\ grid_cache' = EmptyDict
            /\ grid_renderer_in_sync' = TRUE
            /\ grm_pc' = "rs_in"
            /\ grm_resyncs' = grm_resyncs + 1
       ELSE /\ grm_pc' = "job"
            /\ UNCHANGED <<grid_cache, grid_renderer_in_sync, grm_resyncs>>
    /\ UNCHANGED <<uiVars, grid_thumbnailer_in_sync, queueVars, cacheVars,
                   grid_batch_no, grid_render_in, grid_render_out, worker_job,
                   gtmVars, not_generating, genVars, thumbnail_files, batch0,
                   processed, gtm_resyncs, scanVars, parVars, auxVars>>

\* Resync block: clear_queue_and_stop_loading(grid_render_in), one get() a step.
GRM_ClearIn ==
    /\ grm_pc = "rs_in"
    /\ IF grid_render_in = <<>>
       THEN grm_pc' = "rs_out" /\ UNCHANGED grid_render_in
       ELSE grid_render_in' = Tail(grid_render_in) /\ UNCHANGED grm_pc
    /\ UNCHANGED <<uiVars, flagVars, queueVars, cacheVars, grid_cache,
                   grid_batch_no, grid_render_out, worker_job, gtmVars,
                   not_generating, genVars, thumbnail_files, histVars>>

\* Resync block: clear_queue_and_stop_loading(grid_render_out)
GRM_ClearOut ==
    /\ grm_pc = "rs_out"
    /\ IF grid_render_out = <<>>
       THEN grm_pc' = "rs_purge" /\ UNCHANGED grid_render_out
       ELSE grid_render_out' = Tail(grid_render_out) /\ UNCHANGED grm_pc
    /\ UNCHANGED <<uiVars, flagVars, queueVars, cacheVars, grid_cache,
                   grid_batch_no, grid_render_in, worker_job, gtmVars,
                   not_generating, genVars, thumbnail_files, histVars>>

\* The batch number after a resync.
NextBatchNo(n) == (n + 1) % BatchModulus

\* Resync block: `while grid_render_queue.get(): pass`, one get() a step, and
\* after the delimiter the new batch number.
GRM_Purge ==
    /\ grm_pc = "rs_purge"
    /\ grid_render_queue # <<>>
    /\ grid_render_queue' = Tail(grid_render_queue)
    /\ IF Head(grid_render_queue) = RenderDelimiter
       THEN /\ grid_batch_no' = NextBatchNo(grid_batch_no)
            /\ grm_pc' = "job"
       ELSE UNCHANGED <<grid_batch_no, grm_pc>>
    /\ UNCHANGED <<uiVars, flagVars, grid_thumbnail_queue, cacheVars,
                   grid_cache, grid_render_in, grid_render_out, worker_job,
                   gtmVars, not_generating, genVars, thumbnail_files, histVars>>

\* `if tui.quitting or not in_sync.is_set(): continue`, then, with the grid
\* active, grid_render_queue.get(timeout) and the job sent to the renderers
\* under the current batch number.  Unpacking None raises TypeError.
GRM_Job ==
    /\ grm_pc = "job"
    /\ IF ~grid_renderer_in_sync
       THEN /\ grm_pc' = "top"
            /\ UNCHANGED <<grid_render_queue, grid_render_in>>
       ELSE IF grid_active /\ grid_render_queue # <<>>
            THEN /\ grid_render_queue' = Tail(grid_render_queue)
                 /\ IF Head(grid_render_queue) = RenderDelimiter
                    THEN grm_pc' = "raised" /\ UNCHANGED grid_render_in
                    ELSE /\ grid_render_in' = Append(grid_render_in,
                              [batch_no |-> grid_batch_no,
                               source |-> Head(grid_render_queue).source,
                               thumbnail |-> Head(grid_render_queue).thumbnail,
                               ep |-> Head(grid_render_queue).ep])
                         /\ grm_pc' = "res"
            ELSE /\ grm_pc' = "res"
                 /\ UNCHANGED <<grid_render_queue, grid_render_in>>
    /\ UNCHANGED <<uiVars, flagVars, grid_thumbnail_queue, cacheVars,
                   grid_cache, grid_batch_no, grid_render_out, worker_job,
                   gtmVars, not_generating, genVars, thumbnail_files, histVars>>

\* A manager that compares no batch numbers.
ResultIsCurrent_AnyBatch(r) == grid_renderer_in_sync

\* Whether GridRenderManager applies a result: batch_no == grid_batch_no and
\* in_sync.is_set()
ResultIsCurrent(r) == r.batch_no = grid_batch_no /\ grid_renderer_in_sync

\* `if tui.quitting or not in_sync.is_set(): continue`, then
\* grid_render_out.get(timeout): a result of the current batch is put in the
\* grid cache and its thumbnail marked rendered, any other is dropped.
GRM_Result ==
    /\ grm_pc = "res"
    /\ IF ~grid_renderer_in_sync \/ grid_render_out = <<>>
       THEN /\ grm_pc' = "top"
            /\ UNCHANGED <<grid_render_out, grid_cache,
                           thumbnails_being_rendered, extra_thumbnail_cache>>
       ELSE LET r == Head(grid_render_out) IN
            /\ grid_render_out' = Tail(grid_render_out)
            /\ IF ResultIsCurrent(r)
               THEN /\ grid_cache' = DictSet(grid_cache, Basename(r.source), Canvas(r))
                    /\ IF r.thumbnail # NoThumb
                       THEN /\ thumbnails_being_rendered' =
                                   MarkedBeingRendered(r.source, r.thumbnail)
                            /\ extra_thumbnail_cache' =
                                   MarkedExtraCache(r.source, r.thumbnail)
                            /\ grm_pc' = IF MarkRaises(r.source, r.thumbnail)
                                         THEN "raised" ELSE "top"
                       ELSE /\ grm_pc' = "top"
                            /\ UNCHANGED <<thumbnails_being_rendered,
                                           extra_thumbnail_cache>>
               ELSE /\ grm_pc' = "top"
                    /\ UNCHANGED <<grid_cache, thumbnails_being_rendered,
                                   extra_thumbnail_cache>>
    /\ UNCHANGED <<uiVars, flagVars, queueVars, thumbnail_sources,
                   thumbnail_cache, thumbnails_to_be_deleted, grid_batch_no,
                   grid_render_in, worker_job, gtmVars, not_generating,
                   genVars, thumbnail_files, histVars>>

\* ------------------------------------------ GridRenderer (render_grid_images)

\* render_grid_images: input.get()
GR_Get ==
    /\ worker_job = NoJob
    /\ grid_render_in # <<>>
    /\ worker_job' = Head(grid_render_in)
    /\ grid_render_in' = Tail(grid_render_in)
    /\ UNCHANGED <<uiVars, flagVars, queueVars, cacheVars, grid_cache, grm_pc,
                   grid_batch_no, grid_render_out, gtmVars, not_generating,
                   genVars, thumbnail_files, histVars>>

\* render_grid_images: ImageClass.from_file(thumbnail or source) and the
\* render; any exception gives a None render.  A thumbnail that is no longer
\* a file cannot be opened.
Rendered(job) == job.thumbnail = NoThumb \/ job.thumbnail \in DOMAIN thumbnail_files

\* render_grid_images: the render and output.put()
GR_Render ==
    /\ worker_job # NoJob
    /\ grid_render_out' = Append(grid_render_out,
           [batch_no |-> worker_job.batch_no, source |-> worker_job.source,
            thumbnail |-> worker_job.thumbnail, render |-> Rendered(worker_job),
            ep |-> worker_job.ep])
    /\ worker_job' = NoJob
    /\ UNCHANGED <<uiVars, flagVars, queueVars, cacheVars, grid_cache, grm_pc,
                   grid_batch_no, grid_render_in, gtmVars, not_generating,
                   genVars, thumbnail_files, histVars>>


\* ------------------------------------- the thumbnail cache (cache_thumbnail)

\* thumbnail_sources is a dict in insertion order: a tuple of entries.
SourcesKeys(ts) == {ts[i].thumbnail : i \in DOMAIN ts}
SourcesOf(ts, t) == ts[CHOOSE i \in DOMAIN ts : ts[i].thumbnail = t].sources
SourcesDel(ts, t) == SelectSeq(ts, LAMBDA e : e.thumbnail # t)
SourcesSet(ts, t, srcs) ==
    IF t \in SourcesKeys(ts)
    THEN [i \in DOMAIN ts |-> IF ts[i].thumbnail = t
                              THEN [thumbnail |-> t, sources |-> srcs]
                              ELSE ts[i]]
    ELSE Append(ts, [thumbnail |-> t, sources |-> srcs])

\* What cache_thumbnail and delete_thumbnail read and write; `raised` says an
\* exception left the function.
CacheState == [ts |-> thumbnail_sources, tc |-> thumbnail_cache,
               etc |-> extra_thumbnail_cache, tbd |-> thumbnails_to_be_deleted,
               files |-> thumbnail_files,
               tbr |-> thumbnails_being_rendered, raised |-> FALSE]

\* delete_thumbnail: os.remove; an OSError (no such file) is logged, remove(None)
\* raises TypeError.
DeleteThumbnail(st, t) ==
    IF t = NoThumb
    THEN [st EXCEPT !.raised = TRUE]
    ELSE [st EXCEPT !.files = DictDel(@, t)]

\* cache_thumbnail: `0 < THUMBNAIL_CACHE_SIZE == len(thumbnail_sources)`
CacheIsFull(ts) == 0 < THUMBNAIL_CACHE_SIZE /\ THUMBNAIL_CACHE_SIZE = Len(ts)

\* cache_thumbnail: min(thumbnail_sources, key=number of linked sources), the
\* first of the minimal entries in the dict's order.
EvictionChoice(ts) ==
    CHOOSE i \in DOMAIN ts :
        \A j \in DOMAIN ts :
            \/ Len(ts[i].sources) < Len(ts[j].sources)
            \/ Len(ts[i].sources) = Len(ts[j].sources) /\ i <= j

\* `for s in sources: del thumbnail_cache[s]` raises KeyError when a source is
\* not a key, also when it is linked twice.
UnlinkRaises(tc, srcs) ==
    \/ \E i \in DOMAIN srcs : srcs[i] \notin DOMAIN tc
    \/ \E i, j \in DOMAIN srcs : i # j /\ srcs[i] = srcs[j]

Unlink(tc, srcs) == [x \in (DOMAIN tc) \ Range(srcs) |-> tc[x]]

\* extra_thumbnail_cache with the sources of *thumbnail* in the render pipeline
ExtraCached(st, thumbnail) ==
    [x \in (DOMAIN st.etc) \cup st.tbr[thumbnail] |->
        IF x \in st.tbr[thumbnail] THEN thumbnail ELSE st.etc[x]]

\* cache_thumbnail, "Eviction, for finite cache size"
Evict(st) ==
    LET i == EvictionChoice(st.ts)
        other == st.ts[i].thumbnail
        srcs == st.ts[i].sources
    IN  IF other \in DOMAIN st.tbr
        THEN IF UnlinkRaises(st.tc, srcs)
             THEN [st EXCEPT !.etc = ExtraCached(st, other), !.raised = TRUE]
             ELSE [st EXCEPT !.etc = ExtraCached(st, other),
                             !.tc = Unlink(st.tc, srcs),
                             !.tbd = @ \cup {other},
                             !.ts = SourcesDel(st.ts, other)]
        ELSE IF other = NoThumb \/ UnlinkRaises(st.tc, srcs)
             THEN [DeleteThumbnail(st, other) EXCEPT !.raised = TRUE]
             ELSE [DeleteThumbnail(st, other) EXCEPT
                             !.tc = Unlink(st.tc, srcs),
                             !.ts = SourcesDel(st.ts, other)]

\* cache_thumbnail, "Deduplication": has the deduplicated thumbnail NOT been
\* evicted?
DeduplicatedIsCached(ts, deduplicated) ==
    /\ deduplicated # NoThumb
    /\ THUMBNAIL_CACHE_SIZE = 0 \/ deduplicated \in SourcesKeys(ts)

\* cache_thumbnail, "Deduplication": the sources of *deduplicated* are linked
\* to *thumbnail*, and *deduplicated* is deleted now or later.
Relink(st, source, thumbnail, deduplicated) ==
    IF deduplicated \notin SourcesKeys(st.ts)
    THEN [st EXCEPT !.raised = TRUE]
    ELSE LET srcs == SourcesOf(st.ts, deduplicated)
             linked == [st EXCEPT
                 !.ts = SourcesSet(SourcesDel(st.ts, deduplicated), thumbnail,
                                   Append(srcs, source)),
                 !.tc = [x \in (DOMAIN st.tc) \cup Range(srcs) |->
                            IF x \in Range(srcs) THEN thumbnail ELSE st.tc[x]]]
         IN  IF deduplicated \in DOMAIN st.tbr
             THEN [linked EXCEPT !.etc = ExtraCached(st, deduplicated),
                                 !.tbd = @ \cup {deduplicated}]
             ELSE DeleteThumbnail(linked, deduplicated)

\* manage_grid_thumbnails.cache_thumbnail
CacheThumbnail(st0, source, thumbnail, deduplicated) ==
    LET st1 == IF deduplicated = NoThumb /\ CacheIsFull(st0.ts)
               THEN Evict(st0) ELSE st0
        st2 == [st1 EXCEPT !.tc = DictSet(@, source, thumbnail)]
    IN  IF st1.raised THEN st1
        ELSE IF DeduplicatedIsCached(st2.ts, deduplicated)
             THEN Relink(st2, source, thumbnail, deduplicated)
             ELSE [st2 EXCEPT !.ts = SourcesSet(@, thumbnail, <<source>>)]

\* The cache state st is stored.
StoreCache(st) ==
    /\ thumbnail_sources' = st.ts
    /\ thumbnail_cache' = st.tc
    /\ extra_thumbnail_cache' = st.etc
    /\ thumbnails_to_be_deleted' = st.tbd
    /\ thumbnail_files' = st.files


\* -------------------------------- GridThumbnailManager (manage_grid_thumbnails)

\* thumbnails_being_rendered[thumbnail].add(source), on the defaultdict
BeingRenderedAdd(tbr, thumbnail, source) ==
    DictSet(tbr, thumbnail,
            IF thumbnail \in DOMAIN tbr THEN tbr[thumbnail] \cup {source}
            ELSE {source})

\* manage_grid_thumbnails, top of the loop: the wait for the grid to be active,
\* a thumbnail to be out or a deletion to be pending, then
\* `if not in_sync.is_set()`: the resync block starts with in_sync.set().
GTM_Top ==
    /\ gtm_pc = "top"
    /\ grid_active \/ thumbnail_out # <<>> \/ thumbnails_to_be_deleted # {}
    /\ IF ~grid_thumbnailer_in_sync
       THEN /\ grid_thumbnailer_in_sync' = TRUE
            /\ gtm_pc' = "rs_waitR"
            /\ gtm_resyncs' = gtm_resyncs + 1
       ELSE /\ gtm_pc' = "del"
            /\ UNCHANGED <<grid_thumbnailer_in_sync, gtm_resyncs>>
    /\ UNCHANGED <<uiVars, grid_renderer_in_sync, queueVars, cacheVars,
                   grid_cache, grmVars, worker_job, thumbnail_in,
                   thumbnail_out, not_generating, genVars, thumbnail_files,
                   batch0, processed, grm_resyncs, scanVars, parVars, auxVars>>

\* Resync block: renderer_in_sync.wait()
GTM_WaitRenderer ==
    /\ gtm_pc = "rs_waitR"
    /\ grid_renderer_in_sync
    /\ gtm_pc' = "rs_clear"
    /\ UNCHANGED <<uiVars, flagVars, queueVars, cacheVars, grid_cache, grmVars,
                   worker_job, thumbnail_in, thumbnail_out, not_generating,
                   genVars, thumbnail_files, histVars>>

\* Resync block: extra_thumbnail_cache.clear(); thumbnails_being_rendered.clear()
GTM_ClearShared ==
    /\ gtm_pc = "rs_clear"
    /\ extra_thumbnail_cache' = EmptyDict
    /\ thumbnails_being_rendered' = EmptyDict
    /\ gtm_pc' = "rs_in"
    /\ UNCHANGED <<uiVars, flagVars, queueVars, thumbnail_sources,
                   thumbnail_cache, thumbnails_to_be_deleted, grid_cache,
                   grmVars, worker_job, thumbnail_in, thumbnail_out,
                   not_generating, genVars, thumbnail_files, histVars>>

\* Resync block: clear_queue_and_stop_loading(thumbnail_in), one get() a step
GTM_ClearIn ==
    /\ gtm_pc = "rs_in"
    /\ IF thumbnail_in = <<>>
       THEN gtm_pc' = "rs_notgen" /\ UNCHANGED thumbnail_in
       ELSE thumbnail_in' = Tail(thumbnail_in) /\ UNCHANGED gtm_pc
    /\ UNCHANGED <<uiVars, flagVars, queueVars, cacheVars, grid_cache, grmVars,
                   worker_job, thumbnail_out, not_generating, genVars,
                   thumbnail_files, histVars>>

\* Resync block: not_generating.wait()
GTM_WaitGenerator ==
    /\ gtm_pc = "rs_notgen"
    /\ not_generating
    /\ gtm_pc' = "rs_drain"
    /\ UNCHANGED <<uiVars, flagVars, queueVars, cacheVars, grid_cache, grmVars,
                   worker_job, thumbnail_in, thumbnail_out, not_generating,
                   genVars, thumbnail_files, histVars>>

\* History: the sources whose generated thumbnail has been taken, r included.
Processed(r) == IF r.thumbnail # NoThumb THEN processed \cup {r.source}
                ELSE processed

\* Resync block, "Cache or delete already generated thumbnails in the out
\* queue": a thumbnail is deleted when the cache is full, cached otherwise.
DrainOne(st, r) ==
    IF r.deduplicated = NoThumb /\ CacheIsFull(st.ts)
    THEN DeleteThumbnail(st, r.thumbnail)
    ELSE CacheThumbnail(st, r.source, r.thumbnail, r.deduplicated)

\* Resync block: one thumbnail_out.get(timeout) of the loop
GTM_Drain ==
    /\ gtm_pc = "rs_drain"
    /\ IF thumbnail_out = <<>>
       THEN /\ gtm_pc' = "rs_del"
            /\ UNCHANGED <<thumbnail_out, cacheVars, thumbnail_files, processed>>
       ELSE LET st == DrainOne(CacheState, Head(thumbnail_out)) IN
            /\ thumbnail_out' = Tail(thumbnail_out)
            /\ StoreCache(st)
            /\ gtm_pc' = IF st.raised THEN "raised" ELSE "rs_drain"
            /\ processed' = Processed(Head(thumbnail_out))
            /\ UNCHANGED thumbnails_being_rendered
    /\ UNCHANGED <<uiVars, flagVars, queueVars, grid_cache, grmVars, worker_job,
                   thumbnail_in, not_generating, genVars, batch0, resyncVars, scanVars,
                   parVars, auxVars>>

\* Resync block: every thumbnail of thumbnails_to_be_deleted is deleted
GTM_DeleteQueued ==
    /\ gtm_pc = "rs_del"
    /\ thumbnail_files' = [t \in (DOMAIN thumbnail_files) \ thumbnails_to_be_deleted
                              |-> thumbnail_files[t]]
    /\ thumbnails_to_be_deleted' = {}
    /\ gtm_pc' = "rs_purge"
    /\ UNCHANGED <<uiVars, flagVars, queueVars, thumbnail_sources,
                   thumbnail_cache, extra_thumbnail_cache,
                   thumbnails_being_rendered, grid_cache, grmVars, worker_job,
                   thumbnail_in, thumbnail_out, not_generating, genVars,
                   histVars>>

\* Resync block: `while grid_thumbnail_queue.get(): pass`, one get() a step
GTM_Purge ==
    /\ gtm_pc = "rs_purge"
    /\ grid_thumbnail_queue # <<>>
    /\ grid_thumbnail_queue' = Tail(grid_thumbnail_queue)
    /\ gtm_pc' = IF Head(grid_thumbnail_queue) = ThumbDelimiter
                 THEN "del" ELSE "rs_purge"
    /\ UNCHANGED <<uiVars, flagVars, grid_render_queue, cacheVars, grid_cache,
                   grmVars, worker_job, thumbnail_in, thumbnail_out,
                   not_generating, genVars, thumbnail_files, histVars>>

\* The queued thumbnails that may be deleted now: those not being rendered.
Deletable == thumbnails_to_be_deleted \ DOMAIN thumbnails_being_rendered

\* `if tui.quitting or not in_sync.is_set(): continue`, then
\* `if thumbnails_to_be_deleted:` the deferred deletions
GTM_DeleteDeferred ==
    /\ gtm_pc = "del"
    /\ IF ~grid_thumbnailer_in_sync
       THEN /\ gtm_pc' = "top"
            /\ UNCHANGED <<thumbnail_files, thumbnails_to_be_deleted>>
       ELSE /\ thumbnail_files' = [t \in (DOMAIN thumbnail_files) \ Deletable
                                      |-> thumbnail_files[t]]
            /\ thumbnails_to_be_deleted' = thumbnails_to_be_deleted \ Deletable
            /\ gtm_pc' = "job"
    /\ UNCHANGED <<uiVars, flagVars, queueVars, thumbnail_sources,
                   thumbnail_cache, extra_thumbnail_cache,
                   thumbnails_being_rendered, grid_cache, grmVars, worker_job,
                   thumbnail_in, thumbnail_out, not_generating, genVars,
                   histVars>>

\* thumbnail_cache.get(source)
CachedThumbnail(source) ==
    IF source \in DOMAIN thumbnail_cache THEN thumbnail_cache[source] ELSE NoThumb

\* `if tui.quitting or not in_sync.is_set(): continue`, then, with the grid
\* active, grid_thumbnail_queue.get(timeout): a cached thumbnail goes to the
\* render queue, any other source to the generator.
GTM_Job ==
    /\ gtm_pc = "job"
    /\ IF ~grid_thumbnailer_in_sync
       THEN /\ gtm_pc' = "top"
            /\ UNCHANGED <<queueVars, thumbnail_in, thumbnails_being_rendered>>
       ELSE IF grid_active /\ grid_thumbnail_queue # <<>>
            THEN LET job == Head(grid_thumbnail_queue)
                     thumbnail == CachedThumbnail(job.source)
                 IN  /\ grid_thumbnail_queue' = Tail(grid_thumbnail_queue)
                     /\ gtm_pc' = "res"
                     /\ IF thumbnail # NoThumb
                        THEN /\ thumbnails_being_rendered' = BeingRenderedAdd(
                                    thumbnails_being_rendered, thumbnail, job.source)
                             /\ grid_render_queue' = Append(grid_render_queue,
                                    RenderJob(job.source, thumbnail, job.ep))
                             /\ UNCHANGED thumbnail_in
                        ELSE /\ thumbnail_in' = Append(thumbnail_in, job)
                             /\ UNCHANGED <<grid_render_queue,
                                            thumbnails_being_rendered>>
            ELSE /\ gtm_pc' = "res"
                 /\ UNCHANGED <<queueVars, thumbnail_in, thumbnails_being_rendered>>
    /\ UNCHANGED <<uiVars, flagVars, thumbnail_sources, thumbnail_cache,
                   extra_thumbnail_cache, thumbnails_to_be_deleted, grid_cache,
                   grmVars, worker_job, thumbnail_out, not_generating, genVars,
                   thumbnail_files, histVars>>

\* `if tui.quitting or not in_sync.is_set(): continue`, then
\* thumbnail_out.get(timeout): is a generated thumbnail out?
GTM_Result ==
    /\ gtm_pc = "res"
    /\ gtm_pc' = IF ~grid_thumbnailer_in_sync \/ thumbnail_out = <<>>
                 THEN "top" ELSE "fwd"
    /\ UNCHANGED <<uiVars, flagVars, queueVars, cacheVars, grid_cache, grmVars,
                   worker_job, thumbnail_in, thumbnail_out, not_generating,
                   genVars, thumbnail_files, histVars>>

\* A GridThumbnailManager that forwards only the sources that got a thumbnail.
Forwards_WithThumbnail ==
    grid_thumbnailer_in_sync /\ Head(thumbnail_out).thumbnail # NoThumb

\* Whether a generated thumbnail is forwarded to GridRenderManager:
\* `if in_sync.is_set() and not tui.quitting`
Forwards == grid_thumbnailer_in_sync

\* The generated thumbnail taken from thumbnail_out: forwarded to the render
\* queue when in sync, and cached when there is one.
GTM_Forward ==
    /\ gtm_pc = "fwd"
    /\ LET r == Head(thumbnail_out)
           tbr == IF Forwards /\ r.thumbnail # NoThumb
                  THEN BeingRenderedAdd(thumbnails_being_rendered, r.thumbnail, r.source)
                  ELSE thumbnails_being_rendered
           st == IF r.thumbnail # NoThumb
                 THEN CacheThumbnail([CacheState EXCEPT !.tbr = tbr],
                                     r.source, r.thumbnail, r.deduplicated)
                 ELSE CacheState
       IN  /\ thumbnail_out' = Tail(thumbnail_out)
           /\ thumbnails_being_rendered' = tbr
           /\ grid_render_queue' =
                  IF Forwards
                  THEN Append(grid_render_queue, RenderJob(r.source, r.thumbnail, r.ep))
                  ELSE grid_render_queue
           /\ StoreCache(st)
           /\ processed' = Processed(r)
           /\ gtm_pc' = IF st.raised THEN "raised" ELSE "top"
    /\ UNCHANGED <<uiVars, flagVars, grid_thumbnail_queue, grid_cache, grmVars,
                   worker_job, thumbnail_in, not_generating, genVars, batch0,
                   resyncVars,
                   scanVars, parVars, auxVars>>


\* ------------------------------ GridThumbnailer (generate_grid_thumbnails)

\* A generated thumbnail on thumbnail_out: (source, thumbnail, deduplicated)
ThumbResult(s, t, d, ep) == [source |-> s, thumbnail |-> t, deduplicated |-> d, ep |-> ep]

\* generate_grid_thumbnails: mkdir(THUMBNAIL_DIR) makes the thumbnail
\* directory inside the temporary data directory.
GEN_Mkdir ==
    /\ gen_pc = "mkdir"
    /\ gen_pc' = "get"
    /\ UNCHANGED <<uiVars, flagVars, queueVars, cacheVars, grid_cache, grmVars,
                   worker_job, gtmVars, not_generating, gen_job,
                   deduplicated_to_be_deleted, n_thumbnails, thumbnail_files,
                   histVars>>

\* generate_grid_thumbnails: mkdir(THUMBNAIL_DIR) raises OSError; the exception
\* is logged and raised again, which ends GridThumbnailer.
GEN_MkdirFail ==
    /\ gen_pc = "mkdir"
    /\ gen_pc' = "raised"
    /\ UNCHANGED <<uiVars, flagVars, queueVars, cacheVars, grid_cache, grmVars,
                   worker_job, gtmVars, not_generating, gen_job,
                   deduplicated_to_be_deleted, n_thumbnails, thumbnail_files,
                   histVars>>

\* generate_grid_thumbnails: `source := input.get()`; None ends the loop, the
\* `finally` clears not_generating.
GEN_Get ==
    /\ gen_pc = "get"
    /\ thumbnail_in # <<>>
    /\ thumbnail_in' = Tail(thumbnail_in)
    /\ IF Head(thumbnail_in).source = NoSource
       THEN gen_pc' = "quit" /\ not_generating' = FALSE /\ UNCHANGED gen_job
       ELSE gen_pc' = "clear" /\ gen_job' = Head(thumbnail_in)
                              /\ UNCHANGED not_generating
    /\ UNCHANGED <<uiVars, flagVars, queueVars, cacheVars, grid_cache, grmVars,
                   worker_job, gtm_pc, thumbnail_out,
                   deduplicated_to_be_deleted, n_thumbnails, thumbnail_files,
                   histVars>>

\* generate_grid_thumbnails: `finally: not_generating.clear()`
GEN_Clear ==
    /\ gen_pc = "clear"
    /\ not_generating' = FALSE
    /\ gen_pc' = "make"
    /\ UNCHANGED <<uiVars, flagVars, queueVars, cacheVars, grid_cache, grmVars,
                   worker_job, gtmVars, gen_job, deduplicated_to_be_deleted,
                   n_thumbnails, thumbnail_files, histVars>>

\* "Retain only the files that still exist"
StillToBeDeleted == deduplicated_to_be_deleted \cap DOMAIN thumbnail_files

\* A generator that looks for no duplicate.
Duplicates_None(thumbnail, source) == {}

\* "Deduplication": the other thumbnails of the same hash and the same bytes
\* that are not about to be deleted
Duplicates(thumbnail, source) ==
    {other \in DOMAIN thumbnail_files :
        /\ other # thumbnail
        /\ other \notin StillToBeDeleted
        /\ thumbnail_files[other] = Pixels(source)}

\* generate_grid_thumbnails: the source is made into a thumbnail file, a copy
\* of a duplicate if there is one; then output.put() and, at the top of the
\* loop, not_generating.set().
GEN_Make ==
    /\ gen_pc = "make"
    /\ LET thumbnail == n_thumbnails + 1 IN
       /\ n_thumbnails' = thumbnail
       /\ thumbnail_files' = DictSet(thumbnail_files, thumbnail, Pixels(gen_job.source))
       /\ IF Duplicates(thumbnail, gen_job.source) = {}
          THEN /\ deduplicated_to_be_deleted' = StillToBeDeleted
               /\ thumbnail_out' = Append(thumbnail_out,
                      ThumbResult(gen_job.source, thumbnail, NoThumb, gen_job.ep))
          ELSE \E other \in Duplicates(thumbnail, gen_job.source) :
               /\ deduplicated_to_be_deleted' = StillToBeDeleted \cup {other}
               /\ thumbnail_out' = Append(thumbnail_out,
                      ThumbResult(gen_job.source, thumbnail, other, gen_job.ep))
    /\ gen_job' = NoThumbJob
    /\ not_generating' = TRUE
    /\ gen_pc' = "get"
    /\ UNCHANGED <<uiVars, flagVars, queueVars, cacheVars, grid_cache, grmVars,
                   worker_job, gtm_pc, thumbnail_in, histVars>>

\* generate_grid_thumbnails: the source cannot be opened, or the thumbnail
\* file cannot be made or saved: output.put((source, None, None)).
GEN_Fail ==
    /\ gen_pc = "make"
    /\ thumbnail_out' = Append(thumbnail_out,
           ThumbResult(gen_job.source, NoThumb, NoThumb, gen_job.ep))
    /\ deduplicated_to_be_deleted' = StillToBeDeleted
    /\ gen_job' = NoThumbJob
    /\ not_generating' = TRUE
    /\ gen_pc' = "get"
    /\ UNCHANGED <<uiVars, flagVars, queueVars, cacheVars, grid_cache, grmVars,
                   worker_job, gtm_pc, thumbnail_in, n_thumbnails,
                   thumbnail_files, histVars>>

\* ------------------------------------------------------ the directory scan
\* cli.py, the checker that runs in the main process (logging.MULTI off or one
\* checker): check_dir calls itself for every subdirectory, `_source` is None
\* and nothing is handed over to _dir_queue.

\* A path is the tuple of its characters: str.startswith is then the prefix
\* test on strings that it is in the program.
Sep == <<"/">>
\* the default of check_dir's prev_dir, ".."
ParentDir == <<".", ".">>

\* str.__eq__ in the place of str.startswith
StartsWith_Equal(s, prefix) == s = prefix

\* str.startswith
StartsWith(s, prefix) ==
    Len(prefix) <= Len(s) /\ SubSeq(s, 1, Len(prefix)) = prefix

\* os.path.join(dir, name)
Join(dir, name) == dir \o Sep \o name

\* Position of the last separator of an absolute path.
LastSep(p) ==
    CHOOSE i \in 1..Len(p) : p[i] = "/" /\ \A j \in (i + 1)..Len(p) : p[j] # "/"
\* os.path.dirname and os.path.basename of an absolute path
Dirname(p) == IF LastSep(p) = 1 THEN Sep ELSE SubSeq(p, 1, LastSep(p) - 1)
PathBasename(p) == SubSeq(p, LastSep(p) + 1, Len(p))

\* The directories of the file systems of the model: the source directory /a
\* given on the command line, /a/c, /a/cd and, outside the source, /z.
SourceDir == <<"/", "a">>
DirC == Join(SourceDir, <<"c">>)
DirCD == Join(SourceDir, <<"c", "d">>)
DirZ == <<"/", "z">>

\* A file system: its directories (none of them a link), the directories that
\* hold a file PIL opens (images), the directories that hold a file PIL refuses
\* (texts), and its directory symlinks `dir/name -> target`.
LinkB(D) == {[dir |-> d, name |-> <<"b">>, target |-> t] : d \in D, t \in D}
LinkL(D) ==
    {[dir |-> d, name |-> <<"l">>, target |-> t] : d \in D \cap {DirCD, DirZ},
                                                   t \in D}
AtMostOne(S) == {{}} \cup {{x} : x \in S}
FileSystemsOn(D) ==
    {[dirs |-> D, images |-> I, texts |-> D \cap {DirCD}, links |-> B \cup L,
      noenter |-> {}, nolist |-> {}] :
        I \in SUBSET (D \ {DirCD}),
        B \in AtMostOne(LinkB(D)),
        L \in AtMostOne(LinkL(D))}
FileSystems ==
    UNION {FileSystemsOn({SourceDir, DirZ} \cup O) : O \in SUBSET {DirC, DirCD}}

\* The values args.max_depth takes in the model (any integer > 0 is accepted,
\* cli.py:70).
MaxDepths == {1, 50}

\* Python's None, as the result of check_dir: a result is the tuple of nothing
\* (None) or of one dict.
None == <<>>

\* os.path.abspath of a path relative to the working directory
Abspath(name) == Join(cwd, name)

\* os.path.realpath of an absolute path whose directory is not a link
Realpath(p) ==
    IF \E l \in fs.links : Join(l.dir, l.name) = p
    THEN (CHOOSE l \in fs.links : Join(l.dir, l.name) = p).target
    ELSE p

\* The working directory after os.chdir(to), made in directory `from`
ChdirFrom(from, to) ==
    IF to = ParentDir THEN Dirname(from)
    ELSE IF to[1] = "/" THEN Realpath(to)
    ELSE Realpath(Join(from, to))

\* The working directory after os.chdir(to)
Chdir(to) == ChdirFrom(cwd, to)

\* os.scandir() of directory d: the DirEntry objects, with what is_file(),
\* is_dir() (both follow links), is_symlink() and Image.open() say of each.
DirEntry(name, is_file, is_symlink, decodable) ==
    [name |-> name, is_file |-> is_file, is_dir |-> ~is_file,
     is_symlink |-> is_symlink, decodable |-> decodable]
ScanDir(d) ==
    {DirEntry(<<"i">>, TRUE, FALSE, TRUE) : x \in {d} \cap fs.images}
    \cup {DirEntry(<<"t">>, TRUE, FALSE, FALSE) : x \in {d} \cap fs.texts}
    \cup {DirEntry(PathBasename(x), FALSE, FALSE, FALSE) :
            x \in {y \in fs.dirs \ {d} : Dirname(y) = d}}
    \cup {DirEntry(l.name, FALSE, TRUE, FALSE) :
            l \in {k \in fs.links : k.dir = d}}

\* The check on the links alone, without that on the working directory.
IsCyclic_LinksOnly(path) ==
    _links # <<>> /\ \E i \in DOMAIN _links : StartsWith(_links[i][1], path)

\* cli.py:203-205, "Eliminate cyclic symlinks": path is the link's realpath.
IsCyclic(path) ==
    \/ StartsWith(cwd, path)
    \/ _links # <<>> /\ \E i \in DOMAIN _links : StartsWith(_links[i][1], path)

\* The innermost active call of check_dir, and the stack with it replaced.
Top == stack[Len(stack)]
SetTop(f) == [stack EXCEPT ![Len(stack)] = f]
\* The locals of the loop after `continue` / after `break`.
Continue(e) == [Top EXCEPT !.entries = @ \ {e}]
Break == [Top EXCEPT !.entries = {}]

\* list.pop()
Pop(seq) == SubSeq(seq, 1, Len(seq) - 1)

\* _depth after a call of check_dir that returns at cli.py:157 or cli.py:169:
\* incremented at cli.py:148 and left so.
DepthAfterFailure == _depth + 1

\* check_dir(dir, prev_dir, _links=links), cli.py:146-172: up to the loop.
\* `callers` are the calls that wait for this one; is_symlink says whether the
\* caller pops _links when the call returns.  A directory that os.chdir
\* cannot enter (cli.py:149-157) or os.scandir cannot list (cli.py:160-169)
\* makes the call return None at once, in the latter case after
\* os.chdir(prev_dir).  `dir` of the frame is history: the directory of the call.
CheckDir_Call(dir, prev_dir, links, callers, is_symlink) ==
    LET new_cwd == Chdir(dir) IN
    IF new_cwd \in fs.noenter \cup fs.nolist
    THEN /\ _depth' = DepthAfterFailure
         /\ cwd' = IF new_cwd \in fs.noenter THEN cwd
                   ELSE ChdirFrom(new_cwd, prev_dir)
         /\ _links' = IF is_symlink THEN Pop(links) ELSE links
         /\ stack' = callers
         /\ entered' = entered
    ELSE /\ _depth' = _depth + 1
         /\ cwd' = new_cwd
         /\ _links' = links
         /\ stack' = Append(callers,
                            [entries |-> ScanDir(new_cwd), empty |-> TRUE,
                             content |-> EmptyDict, prev_dir |-> prev_dir,
                             name |-> dir, is_symlink |-> is_symlink,
                             dir |-> new_cwd])
         /\ entered' = Append(entered, new_cwd)

pipelineVars == <<uiVars, flagVars, cacheVars, grmVars, gtmVars, genVars,
                  queueVars, grid_cache, worker_job, not_generating,
                  thumbnail_files, batch0, processed, resyncVars>>
gridVars == <<pipelineVars, parVars, auxVars>>

\* cli.py:497-503: the checker takes the source off dir_queue (with _depth 0
\* and no links, cli.py:875) and calls check_dir on it.
Checker_Start ==
    /\ scan_pc = "start"
    /\ scan_pc' = "scan"
    /\ CheckDir_Call(SourceDir, cwd, <<>>, <<>>, FALSE)
    /\ UNCHANGED <<fs, Recursive, MAX_DEPTH, scan_result, gridVars>>

\* One iteration of the loop of check_dir (cli.py:173-226) takes the entry e
\* that os.scandir() yields next; the order of the entries is the file
\* system's.
InLoop(e) == scan_pc = "scan" /\ e \in Top.entries
ScanConfig == <<fs, Recursive, MAX_DEPTH>>

\* cli.py:182-190: e is a file; the first file PIL opens makes the directory
\* non-empty, and ends the loop if the scan is not recursive.
CheckDir_File(e) ==
    /\ InLoop(e)
    /\ e.is_file
    /\ stack' = SetTop(IF Top.empty /\ e.decodable
                       THEN IF ~Recursive
                            THEN [Break EXCEPT !.empty = FALSE]
                            ELSE [Continue(e) EXCEPT !.empty = FALSE]
                       ELSE Continue(e))
    /\ UNCHANGED <<ScanConfig, scan_pc, cwd, _depth, _links, scan_result,
                   entered, gridVars>>

\* cli.py:191: e is a directory and the scan is not recursive.
CheckDir_NotRecursive(e) ==
    /\ InLoop(e)
    /\ ~e.is_file
    /\ ~(Recursive /\ e.is_dir)
    /\ stack' = SetTop(Continue(e))
    /\ UNCHANGED <<ScanConfig, scan_pc, cwd, _depth, _links, scan_result,
                   entered, gridVars>>

\* The conditions under which the loop reaches line 197 with e.
ToBeScanned(e) == InLoop(e) /\ ~e.is_file /\ Recursive /\ e.is_dir

\* cli.py:192-195: the directory being scanned is beyond MAX_DEPTH.
CheckDir_TooDeep(e) ==
    /\ ToBeScanned(e)
    /\ _depth > MAX_DEPTH
    /\ stack' = SetTop(IF ~Top.empty THEN Break ELSE Continue(e))
    /\ UNCHANGED <<ScanConfig, scan_pc, cwd, _depth, _links, scan_result,
                   entered, gridVars>>

\* cli.py:199-206: e is a link that the cycle check eliminates.
CheckDir_Cyclic(e) ==
    /\ ToBeScanned(e)
    /\ ~(_depth > MAX_DEPTH)
    /\ e.is_symlink
    /\ IsCyclic(Realpath(Abspath(e.name)))
    /\ stack' = SetTop(Continue(e))
    /\ UNCHANGED <<ScanConfig, scan_pc, cwd, _depth, _links, scan_result,
                   entered, gridVars>>

\* cli.py:211-215: e is a link that is followed.
CheckDir_Symlink(e) ==
    /\ ToBeScanned(e)
    /\ ~(_depth > MAX_DEPTH)
    /\ e.is_symlink
    /\ ~IsCyclic(Realpath(Abspath(e.name)))
    /\ CheckDir_Call(e.name, cwd,
                     Append(_links, <<Abspath(e.name),
                                      Realpath(Abspath(e.name))>>),
                     SetTop(Continue(e)), TRUE)
    /\ UNCHANGED <<ScanConfig, scan_pc, scan_result, gridVars>>

\* cli.py:221: e is a directory of its own.
CheckDir_Subdir(e) ==
    /\ ToBeScanned(e)
    /\ ~(_depth > MAX_DEPTH)
    /\ ~e.is_symlink
    /\ CheckDir_Call(e.name, ParentDir, _links, SetTop(Continue(e)), FALSE)
    /\ UNCHANGED <<ScanConfig, scan_pc, scan_result, gridVars>>

\* cli.py:228-235, the end of check_dir, and what its caller does with the
\* result: check_dir itself (cli.py:216, 225-226) or the checker
\* (cli.py:504-511).
CheckDir_Return ==
    /\ scan_pc = "scan"
    /\ Top.entries = {}
    /\ LET content == IF ~Top.empty THEN DictSet(Top.content, Sep, TRUE)
                      ELSE Top.content
           result == IF DOMAIN content = {} THEN None ELSE <<content>>
           callers == Pop(stack)
       IN /\ cwd' = Chdir(Top.prev_dir)
          /\ _depth' = _depth - 1
          /\ entered' = Pop(entered)
          /\ _links' = IF Top.is_symlink THEN Pop(_links) ELSE _links
          /\ IF callers = <<>>
             THEN /\ scan_result' = result
                  /\ scan_pc' = "done"
                  /\ stack' = callers
             ELSE /\ stack' = IF result # None
                              THEN [callers EXCEPT ![Len(callers)].content =
                                        DictSet(@, Top.name, result[1])]
                              ELSE callers
                  /\ UNCHANGED <<scan_pc, scan_result>>
    /\ UNCHANGED <<ScanConfig, gridVars>>

Checker ==
    \/ Checker_Start
    \/ \E e \in ScanDir(cwd) : CheckDir_File(e)
    \/ \E e \in ScanDir(cwd) : CheckDir_NotRecursive(e)
    \/ \E e \in ScanDir(cwd) : CheckDir_TooDeep(e)
    \/ \E e \in ScanDir(cwd) : CheckDir_Cyclic(e)
    \/ \E e \in ScanDir(cwd) : CheckDir_Symlink(e)
    \/ \E e \in ScanDir(cwd) : CheckDir_Subdir(e)
    \/ CheckDir_Return

\* ------------------------------------------------------- the parallel scan
\* cli.py with logging.MULTI and n_checkers > 1: main puts the directory
\* sources on dir_queue, the checker processes (check_dirs) take them and
\* hand subdirectories over to one another, CheckManager (manage_checkers)
\* merges their results.  A checker may be terminated from outside at any
\* point.

\* The directory source of the parallel scan and its one subdirectory.
RootDir == "/r"
SubDir == "/r/s"
DirSources == <<RootDir>>

\* An item of dir_queue: (source, links, subdir, _depth); the scan has no links.
DirJob(source, subdir, depth) ==
    [source |-> source, links |-> <<>>, subdir |-> subdir, depth |-> depth]
\* (None,) * 4, the item that ends a checker
EndOfJobs == DirJob(NoSource, NoSource, -1)
\* NO_CHECK, (None,) * 3
NO_CHECK == <<NoSource, NoSource, -1>>
\* An item of progress_queue: (checker_no, (source, content_path, _depth))
Progress(n, check) == [checker_no |-> n, check |-> check]
\* An item of content_queue: (source, content_path, result); a result is the
\* set of directories of the tree that check_dir returned.
Content(source, content_path, result) ==
    [source |-> source, content_path |-> content_path, result |-> result]

\* get_content_path(source, links, subdir), without links
GetContentPath(job) == job.subdir

\* The checker processes.
CheckerNos == 0..(N_CHECKERS - 1)

\* What only two steps of the parallel scan change.
ParOthers == <<pipelineVars, scanVars, auxVars, chk_result, chk_alive>>
mgrVars == <<mgr_pc, mgr_n, checks_in_progress, contents, dir_images>>
mainVars == <<to_put, sources_finished>>

\* cli.py:872-875: main puts a directory source on dir_queue.
Main_PutSource ==
    /\ to_put # <<>>
    /\ dir_queue' = Append(dir_queue, DirJob("", Head(to_put), 0))
    /\ to_put' = Tail(to_put)
    /\ UNCHANGED <<sources_finished, progress_queue, content_queue,
                   progress_updated, content_updated, free_checkers, chk_pc,
                   chk_job, mgrVars, ParOthers>>

\* cli.py:885-887: "Signal end of sources"
Main_SourcesFinished ==
    /\ to_put = <<>>
    /\ ~sources_finished
    /\ sources_finished' = TRUE
    /\ UNCHANGED <<to_put, dir_queue, progress_queue, content_queue,
                   progress_updated, content_updated, free_checkers, chk_pc,
                   chk_job, mgrVars, ParOthers>>

\* check_dirs, cli.py:259 and 263: dir_queue.get_nowait()
Chk_GetNowait(n) ==
    /\ chk_alive[n]
    /\ chk_pc[n] = "get"
    /\ IF dir_queue # <<>>
       THEN /\ chk_job' = [chk_job EXCEPT ![n] = Head(dir_queue)]
            /\ dir_queue' = Tail(dir_queue)
            /\ chk_pc' = [chk_pc EXCEPT ![n] = "taken"]
       ELSE /\ chk_pc' = [chk_pc EXCEPT ![n] = "idle"]
            /\ UNCHANGED <<dir_queue, chk_job>>
    /\ UNCHANGED <<mainVars, progress_queue, content_queue, progress_updated,
                   content_updated, free_checkers, mgrVars, ParOthers>>

\* cli.py:264: progress_updated.wait()
Chk_IdleWait(n) ==
    /\ chk_alive[n]
    /\ chk_pc[n] = "idle"
    /\ progress_updated
    /\ chk_pc' = [chk_pc EXCEPT ![n] = "idle_put"]
    /\ UNCHANGED <<mainVars, dir_queue, progress_queue, content_queue,
                   progress_updated, content_updated, free_checkers, chk_job,
                   mgrVars, ParOthers>>

\* cli.py:265: progress_queue.put((checker_no, NO_CHECK))
Chk_IdlePut(n) ==
    /\ chk_alive[n]
    /\ chk_pc[n] = "idle_put"
    /\ progress_queue' = Append(progress_queue, Progress(n, NO_CHECK))
    /\ chk_pc' = [chk_pc EXCEPT ![n] = "free"]
    /\ UNCHANGED <<mainVars, dir_queue, content_queue, progress_updated,
                   content_updated, free_checkers, chk_job, mgrVars, ParOthers>>

\* cli.py:266-267: free_checkers.value += 1
Chk_Free(n) ==
    /\ chk_alive[n]
    /\ chk_pc[n] = "free"
    /\ free_checkers' = free_checkers + 1
    /\ chk_pc' = [chk_pc EXCEPT ![n] = "blocked"]
    /\ UNCHANGED <<mainVars, dir_queue, progress_queue, content_queue,
                   progress_updated, content_updated, chk_job, mgrVars,
                   ParOthers>>

\* cli.py:269: dir_queue.get()
Chk_Get(n) ==
    /\ chk_alive[n]
    /\ chk_pc[n] = "blocked"
    /\ dir_queue # <<>>
    /\ chk_job' = [chk_job EXCEPT ![n] = Head(dir_queue)]
    /\ dir_queue' = Tail(dir_queue)
    /\ chk_pc' = [chk_pc EXCEPT ![n] = "busy"]
    /\ UNCHANGED <<mainVars, progress_queue, content_queue, progress_updated,
                   content_updated, free_checkers, mgrVars, ParOthers>>

\* cli.py:270-272: free_checkers.value -= 1
Chk_Busy(n) ==
    /\ chk_alive[n]
    /\ chk_pc[n] = "busy"
    /\ free_checkers' = free_checkers - 1
    /\ chk_pc' = [chk_pc EXCEPT ![n] = "taken"]
    /\ UNCHANGED <<mainVars, dir_queue, progress_queue, content_queue,
                   progress_updated, content_updated, chk_job, mgrVars,
                   ParOthers>>

\* cli.py:274-283: the end of the jobs ends the checker; of a job the content
\* path is worked out.
Chk_Taken(n) ==
    /\ chk_alive[n]
    /\ chk_pc[n] = "taken"
    /\ chk_pc' = [chk_pc EXCEPT
                    ![n] = IF chk_job[n].subdir = NoSource THEN "exited"
                           ELSE "announce"]
    /\ UNCHANGED <<mainVars, dir_queue, progress_queue, content_queue,
                   progress_updated, content_updated, free_checkers, chk_job,
                   mgrVars, ParOthers>>

\* cli.py:284: progress_updated.wait()
Chk_AnnounceWait(n) ==
    /\ chk_alive[n]
    /\ chk_pc[n] = "announce"
    /\ progress_updated
    /\ chk_pc' = [chk_pc EXCEPT ![n] = "announce_put"]
    /\ UNCHANGED <<mainVars, dir_queue, progress_queue, content_queue,
                   progress_updated, content_updated, free_checkers, chk_job,
                   mgrVars, ParOthers>>

\* cli.py:285: progress_queue.put((checker_no, (source, content_path, _depth)))
Chk_AnnouncePut(n) ==
    /\ chk_alive[n]
    /\ chk_pc[n] = "announce_put"
    /\ progress_queue' =
           Append(progress_queue,
                  Progress(n, <<chk_job[n].source, GetContentPath(chk_job[n]),
                                chk_job[n].depth>>))
    /\ chk_pc' = [chk_pc EXCEPT ![n] = "check"]
    /\ UNCHANGED <<mainVars, dir_queue, content_queue, progress_updated,
                   content_updated, free_checkers, chk_job, mgrVars, ParOthers>>

\* The subdirectories of a directory of the parallel scan.
SubDirsOf(dir) == IF dir = RootDir THEN {SubDir} ELSE {}

\* cli.py:288, check_dir(subdir): a subdirectory is handed over to a free
\* checker if there is one (cli.py:218-219, with _source set at cli.py:277)
\* and scanned by this call otherwise (cli.py:221).  Every directory holds an
\* image.
Chk_CheckDir(n) ==
    /\ chk_alive[n]
    /\ chk_pc[n] = "check"
    /\ LET job == chk_job[n]
           handed == IF free_checkers # 0 THEN SubDirsOf(job.subdir) ELSE {}
       IN /\ dir_queue' =
                 IF handed = {} THEN dir_queue
                 ELSE Append(dir_queue,
                             DirJob(IF job.source # "" THEN job.source
                                    ELSE job.subdir,
                                    CHOOSE d \in handed : TRUE, job.depth + 1))
          /\ chk_result' =
                 [chk_result EXCEPT
                    ![n] = {job.subdir} \cup (SubDirsOf(job.subdir) \ handed)]
    /\ chk_pc' = [chk_pc EXCEPT ![n] = "deliver"]
    /\ UNCHANGED <<mainVars, progress_queue, content_queue, progress_updated,
                   content_updated, free_checkers, chk_job, mgrVars,
                   pipelineVars, scanVars, auxVars, chk_alive>>

\* cli.py:292: content_updated.wait()
Chk_DeliverWait(n) ==
    /\ chk_alive[n]
    /\ chk_pc[n] = "deliver"
    /\ content_updated
    /\ chk_pc' = [chk_pc EXCEPT ![n] = "deliver_put"]
    /\ UNCHANGED <<mainVars, dir_queue, progress_queue, content_queue,
                   progress_updated, content_updated, free_checkers, chk_job,
                   mgrVars, ParOthers>>

\* cli.py:293: content_queue.put((source, content_path, result))
Chk_DeliverPut(n) ==
    /\ chk_alive[n]
    /\ chk_pc[n] = "deliver_put"
    /\ content_queue' =
           Append(content_queue,
                  Content(chk_job[n].source, GetContentPath(chk_job[n]),
                          chk_result[n]))
    /\ chk_pc' = [chk_pc EXCEPT ![n] = "get"]
    /\ UNCHANGED <<mainVars, dir_queue, progress_queue, progress_updated,
                   content_updated, free_checkers, chk_job, mgrVars, ParOthers>>

\* Process.is_alive()
IsAlive(n) == chk_alive[n] /\ chk_pc[n] # "exited"

\* The checker process is terminated from outside (by a signal): it takes no
\* further step, not even those of its `finally` clauses.
Chk_Terminated(n) ==
    /\ IsAlive(n)
    /\ chk_alive' = [chk_alive EXCEPT ![n] = FALSE]
    /\ UNCHANGED <<mainVars, dir_queue, progress_queue, content_queue,
                   progress_updated, content_updated, free_checkers, chk_pc,
                   chk_job, mgrVars, pipelineVars, scanVars, auxVars, chk_result>>

\* bool(check): NO_CHECK, a tuple of three, is true; None is false.
Truthy(check) == check # None
\* any(checks_in_progress)
AnyCheck == \E n \in CheckerNos : Truthy(checks_in_progress[n])
\* setitem(checks_in_progress, *item)
SetItem(item) ==
    [checks_in_progress EXCEPT ![item.checker_no] = item.check]

chkVars == <<chk_pc, chk_job, free_checkers>>

\* manage_checkers, cli.py:424-427
Mgr_Start ==
    /\ mgr_pc = "start"
    /\ content_updated' = TRUE
    /\ checks_in_progress' = [n \in CheckerNos |-> NO_CHECK]
    /\ progress_updated' = TRUE
    /\ mgr_pc' = "first"
    /\ UNCHANGED <<mainVars, dir_queue, progress_queue, content_queue,
                   chkVars, mgr_n, contents, dir_images, ParOthers>>

\* cli.py:430, "Wait until at least one checker starts processing a directory"
Mgr_First ==
    /\ mgr_pc = "first"
    /\ progress_queue # <<>>
    /\ checks_in_progress' = SetItem(Head(progress_queue))
    /\ progress_queue' = Tail(progress_queue)
    /\ mgr_pc' = "while"
    /\ UNCHANGED <<mainVars, dir_queue, content_queue, progress_updated,
                   content_updated, chkVars, mgr_n, contents, dir_images,
                   ParOthers>>

\* cli.py:437-445, "All checks are done"
AllChecksDone ==
    /\ \A n \in CheckerNos :
          ~Truthy(checks_in_progress[n]) \/ checks_in_progress[n] = NO_CHECK
    /\ sources_finished
    /\ dir_queue = <<>>
    /\ progress_queue = <<>>
    /\ content_queue = <<>>

\* cli.py:432-447: the condition of the loop, and content_updated.clear() if
\* the loop goes on.
Mgr_While ==
    /\ mgr_pc = "while"
    /\ IF ~AnyCheck \/ AllChecksDone
       THEN mgr_pc' = "finally" /\ UNCHANGED content_updated
       ELSE mgr_pc' = "results" /\ content_updated' = FALSE
    /\ UNCHANGED <<mainVars, dir_queue, progress_queue, content_queue,
                   progress_updated, chkVars, mgr_n, checks_in_progress,
                   contents, dir_images, ParOthers>>

\* process_result(source, subdir, result), cli.py:381-388: `contents` after.
ProcessResult(item) == contents \cup item.result

\* cli.py:449-453: one process_result(*content_queue.get()) of the loop, or
\* its end with content_updated.set() and progress_updated.clear().
Mgr_Results ==
    /\ mgr_pc = "results"
    /\ IF content_queue # <<>>
       THEN /\ contents' = ProcessResult(Head(content_queue))
            /\ content_queue' = Tail(content_queue)
            /\ UNCHANGED <<mgr_pc, content_updated, progress_updated>>
       ELSE /\ content_updated' = TRUE
            /\ progress_updated' = FALSE
            /\ mgr_pc' = "progress"
            /\ UNCHANGED <<contents, content_queue>>
    /\ UNCHANGED <<mainVars, dir_queue, progress_queue, chkVars, mgr_n,
                   checks_in_progress, dir_images, ParOthers>>

\* cli.py:454-456: one setitem(checks_in_progress, *progress_queue.get()) of
\* the loop, or its end with progress_updated.set().
Mgr_Progress ==
    /\ mgr_pc = "progress"
    /\ IF progress_queue # <<>>
       THEN /\ checks_in_progress' = SetItem(Head(progress_queue))
            /\ progress_queue' = Tail(progress_queue)
            /\ UNCHANGED <<mgr_pc, mgr_n, progress_updated>>
       ELSE /\ progress_updated' = TRUE
            /\ mgr_pc' = "for"
            /\ mgr_n' = 0
            /\ UNCHANGED <<checks_in_progress, progress_queue>>
    /\ UNCHANGED <<mainVars, dir_queue, content_queue, content_updated,
                   chkVars, contents, dir_images, ParOthers>>

\* cli.py:458-459 and 471: the next checker of the `for` loop is looked at;
\* after the last one the loop sleeps and starts over.  For a checker that is
\* no longer alive while its check is in progress, progress_updated is
\* cleared (cli.py:462).
Mgr_For ==
    /\ mgr_pc = "for"
    /\ IF mgr_n \notin CheckerNos
       THEN mgr_pc' = "while" /\ UNCHANGED <<mgr_n, progress_updated>>
       ELSE IF Truthy(checks_in_progress[mgr_n]) /\ ~IsAlive(mgr_n)
            THEN /\ mgr_pc' = "last_progress"
                 /\ progress_updated' = FALSE
                 /\ UNCHANGED mgr_n
            ELSE /\ mgr_n' = mgr_n + 1
                 /\ UNCHANGED <<mgr_pc, progress_updated>>
    /\ UNCHANGED <<mainVars, dir_queue, progress_queue, content_queue,
                   content_updated, chkVars, checks_in_progress, contents,
                   dir_images, ParOthers>>

\* cli.py:463-465, "Ensure it's actually the last source processed by the dead
\* process that's taken into account": one get() of the loop, or its end.
Mgr_LastProgress ==
    /\ mgr_pc = "last_progress"
    /\ IF progress_queue # <<>>
       THEN /\ checks_in_progress' = SetItem(Head(progress_queue))
            /\ progress_queue' = Tail(progress_queue)
            /\ UNCHANGED <<mgr_pc, progress_updated>>
       ELSE /\ progress_updated' = TRUE
            /\ mgr_pc' = "terminated"
            /\ UNCHANGED <<checks_in_progress, progress_queue>>
    /\ UNCHANGED <<mainVars, dir_queue, content_queue, content_updated,
                   chkVars, mgr_n, contents, dir_images, ParOthers>>

\* process_result(source, subdir, result, n) with n > -1, cli.py:358-379:
\* dir_queue after; `result` is the _depth of the check.
Requeued(check) ==
    IF check[2] # NoSource
    THEN Append(dir_queue, DirJob(check[1], check[2], check[3]))
    ELSE dir_queue

\* cli.py:467-469, "Externally terminated"
Mgr_Terminated ==
    /\ mgr_pc = "terminated"
    /\ IF Truthy(checks_in_progress[mgr_n])
       THEN /\ dir_queue' = Requeued(checks_in_progress[mgr_n])
            /\ checks_in_progress' = [checks_in_progress EXCEPT ![mgr_n] = None]
       ELSE UNCHANGED <<dir_queue, checks_in_progress>>
    /\ mgr_n' = mgr_n + 1
    /\ mgr_pc' = "for"
    /\ UNCHANGED <<mainVars, progress_queue, content_queue, progress_updated,
                   content_updated, chkVars, contents, dir_images, ParOthers>>

\* A queue with item x put n times.
RECURSIVE PutTimes(_, _, _)
PutTimes(queue, x, n) ==
    IF n = 0 THEN queue ELSE PutTimes(Append(queue, x), x, n - 1)

\* cli.py:473-484, the `finally` clause: without a check left the scan has
\* failed and `contents` is cleared; otherwise one end of jobs is put for
\* every check that is not None.
Mgr_Finally ==
    /\ mgr_pc = "finally"
    /\ IF ~AnyCheck
       THEN /\ contents' = {}
            /\ mgr_pc' = "failed"
            /\ UNCHANGED dir_queue
       ELSE /\ dir_queue' =
                  PutTimes(dir_queue, EndOfJobs,
                           Cardinality({n \in CheckerNos :
                                          Truthy(checks_in_progress[n])}))
            /\ mgr_pc' = "join"
            /\ UNCHANGED contents
    /\ UNCHANGED <<mainVars, progress_queue, content_queue, progress_updated,
                   content_updated, chkVars, mgr_n, checks_in_progress,
                   dir_images, ParOthers>>

\* cli.py:485-493: every checker is joined, then the sources that have a
\* result are appended to `images`.
Mgr_Join ==
    /\ mgr_pc = "join"
    /\ \A n \in CheckerNos : ~IsAlive(n)
    /\ dir_images' = {d \in Range(DirSources) : d \in contents}
    /\ mgr_pc' = "done"
    /\ UNCHANGED <<mainVars, dir_queue, progress_queue, content_queue,
                   progress_updated, content_updated, chkVars, mgr_n,
                   checks_in_progress, contents, ParOthers>>

Checkers ==
    \/ \E n \in CheckerNos : Chk_GetNowait(n)
    \/ \E n \in CheckerNos : Chk_IdleWait(n)
    \/ \E n \in CheckerNos : Chk_IdlePut(n)
    \/ \E n \in CheckerNos : Chk_Free(n)
    \/ \E n \in CheckerNos : Chk_Get(n)
    \/ \E n \in CheckerNos : Chk_Busy(n)
    \/ \E n \in CheckerNos : Chk_Taken(n)
    \/ \E n \in CheckerNos : Chk_AnnounceWait(n)
    \/ \E n \in CheckerNos : Chk_AnnouncePut(n)
    \/ \E n \in CheckerNos : Chk_CheckDir(n)
    \/ \E n \in CheckerNos : Chk_DeliverWait(n)
    \/ \E n \in CheckerNos : Chk_DeliverPut(n)
    \/ \E n \in CheckerNos : Chk_Terminated(n)

CheckManager ==
    \/ Mgr_Start
    \/ Mgr_First
    \/ Mgr_While
    \/ Mgr_Results
    \/ Mgr_Progress
    \/ Mgr_For
    \/ Mgr_LastProgress
    \/ Mgr_Terminated
    \/ Mgr_Finally
    \/ Mgr_Join

MainSources == Main_PutSource \/ Main_SourcesFinished

\* ----------------------------------------- render managers and workers
\* tui/render.py: manage_image_renders / render_images, manage_anim_renders /
\* render_frames, manage_grid_renders / render_grid_images and
\* manage_grid_thumbnails / generate_grid_thumbnails, as far as the life of the
\* workers goes: the manager sends jobs while in its loop; its `finally`
\* clears the input queue, puts the sentinels and joins the workers.

RwOthers == <<pipelineVars, scanVars, parVars, sessVars, imVars, sortVars, navVars,
              animVars, confVars, mergeVars, lockVars>>

ManagerKinds == {"image", "anim", "grid", "thumbnail"}

\* The workers of the largest manager.
AllRenderers == 1..N_RENDERERS
\* `renderers`: n_renderers workers for the grid, one worker otherwise.
Renderers(kind) == IF kind = "grid" THEN 1..N_RENDERERS ELSE {1}

\* An item of the input queue; `(None,) * n` (None for the thumbnailer) is the
\* sentinel.  For render_frames, `data` is a source ("new"), a tuple
\* ("resize") or the Ellipsis ("reset").
WorkerJob(type, id) == [type |-> type, id |-> id]
Sentinel == WorkerJob("None", 0)
NoWorkerJob == WorkerJob("none", 0)
\* An item of the output queue: the render (or frame, or thumbnail) of a job,
\* None when it failed.
WorkerResult(id, render) == [id |-> id, render |-> render]

\* The types of job a manager may put next.
JobTypes ==
    IF rm_kind # "anim" THEN {"job"}
    ELSE {"reset"} \cup (IF rm_last = "reset" THEN {"new"} ELSE {})
                   \cup (IF rm_last \in {"new", "resize"} THEN {"resize"} ELSE {})

\* The manager, in its loop, puts a job on the input queue.
RM_Send(type) ==
    /\ rm_pc = "loop"
    /\ rm_sent < MaxJobs
    /\ type \in JobTypes
    /\ render_in' = Append(render_in, WorkerJob(type, rm_sent + 1))
    /\ rm_sent' = rm_sent + 1
    /\ rm_last' = type
    /\ UNCHANGED <<rm_kind, rm_pc, rm_how, sentinels, render_out, rw_pc, rw_job,
                   rw_block, rw_frames, rw_taken, RwOthers>>

\* The manager, in its loop, takes a result off the output queue.
RM_Take ==
    /\ rm_pc = "loop"
    /\ render_out # <<>>
    /\ render_out' = Tail(render_out)
    /\ UNCHANGED <<rm_kind, rm_pc, rm_how, rm_sent, rm_last, sentinels,
                   render_in, rw_pc, rw_job, rw_block, rw_frames, rw_taken,
                   RwOthers>>

\* The manager leaves its loop, by `break` or by an exception; either way the
\* `finally` clause is next.
RM_Leave(how) ==
    /\ rm_pc = "loop"
    /\ rm_how' = how
    /\ rm_pc' = "clear_in"
    /\ UNCHANGED <<rm_kind, rm_sent, rm_last, sentinels, render_in, render_out,
                   rw_pc, rw_job, rw_block, rw_frames, rw_taken, RwOthers>>

\* finally: clear_queue(<input queue>), one queue.get(timeout) at a time until
\* Empty.
RM_ClearIn ==
    /\ rm_pc = "clear_in"
    /\ IF render_in # <<>>
       THEN render_in' = Tail(render_in) /\ UNCHANGED rm_pc
       ELSE rm_pc' = "sentinels" /\ UNCHANGED render_in
    /\ UNCHANGED <<rm_kind, rm_how, rm_sent, rm_last, sentinels, render_out,
                   rw_pc, rw_job, rw_block, rw_frames, rw_taken, RwOthers>>

\* finally: `for renderer in renderers: grid_render_in.put((None,) * 4)`, one
\* put for the managers of a single worker.  manage_anim_renders clears
\* frame_render_out next, the others join.
RM_PutSentinel ==
    /\ rm_pc = "sentinels"
    /\ render_in' = Append(render_in, Sentinel)
    /\ sentinels' = sentinels + 1
    /\ rm_pc' = IF sentinels + 1 < Cardinality(Renderers(rm_kind)) THEN "sentinels"
                ELSE IF rm_kind = "anim" THEN "clear_out" ELSE "join"
    /\ UNCHANGED <<rm_kind, rm_how, rm_sent, rm_last, render_out, rw_pc, rw_job,
                   rw_block, rw_frames, rw_taken, RwOthers>>

\* manage_anim_renders, finally: clear_queue(frame_render_out), "in case the
\* renderer is blocking on put()".
RM_ClearOut ==
    /\ rm_pc = "clear_out"
    /\ IF render_out # <<>>
       THEN render_out' = Tail(render_out) /\ UNCHANGED rm_pc
       ELSE rm_pc' = "join" /\ UNCHANGED render_out
    /\ UNCHANGED <<rm_kind, rm_how, rm_sent, rm_last, sentinels, render_in,
                   rw_pc, rw_job, rw_block, rw_frames, rw_taken, RwOthers>>

\* Thread.is_alive() / Process.is_alive() of a worker.
WorkerAlive(w) == rw_pc[w] \notin {"exited", "raised"}

\* finally: renderer.join() for every worker.
RM_Join ==
    /\ rm_pc = "join"
    /\ \A w \in Renderers(rm_kind) : ~WorkerAlive(w)
    /\ rm_pc' = "done"
    /\ UNCHANGED <<rm_kind, rm_how, rm_sent, rm_last, sentinels, render_in,
                   render_out, rw_pc, rw_job, rw_block, rw_frames, rw_taken,
                   RwOthers>>

\* The worker starts; generate_grid_thumbnails makes its directory first.
W_Start(w) ==
    /\ w \in Renderers(rm_kind)
    /\ rw_pc[w] = "start"
    /\ rw_pc' = [rw_pc EXCEPT ![w] = "get"]
    /\ UNCHANGED <<rm_kind, rm_pc, rm_how, rm_sent, rm_last, sentinels,
                   render_in, render_out, rw_job, rw_block, rw_frames, rw_taken,
                   RwOthers>>

\* generate_grid_thumbnails: mkdir(THUMBNAIL_DIR) raises.
W_StartFail(w) ==
    /\ w \in Renderers(rm_kind)
    /\ rm_kind = "thumbnail"
    /\ rw_pc[w] = "start"
    /\ rw_pc' = [rw_pc EXCEPT ![w] = "raised"]
    /\ UNCHANGED <<rm_kind, rm_pc, rm_how, rm_sent, rm_last, sentinels,
                   render_in, render_out, rw_job, rw_block, rw_frames, rw_taken,
                   RwOthers>>

\* What a worker does with the item it took: the sentinel ends its loop.
Taken(w, job, next) ==
    /\ render_in' = Tail(render_in)
    /\ IF job = Sentinel
       THEN /\ rw_pc' = [rw_pc EXCEPT ![w] = "clear_out"]
            /\ rw_taken' = [rw_taken EXCEPT ![w] = @ + 1]
            /\ UNCHANGED rw_job
       ELSE /\ rw_pc' = [rw_pc EXCEPT ![w] = next]
            /\ rw_job' = [rw_job EXCEPT ![w] = job]
            /\ UNCHANGED rw_taken

\* render_images, render_grid_images, generate_grid_thumbnails: input.get().
W_Get(w) ==
    /\ w \in Renderers(rm_kind)
    /\ rm_kind # "anim"
    /\ rw_pc[w] = "get"
    /\ render_in # <<>>
    /\ Taken(w, Head(render_in), "render")
    /\ UNCHANGED <<rm_kind, rm_pc, rm_how, rm_sent, rm_last, sentinels,
                   render_out, rw_block, rw_frames, RwOthers>>

\* render_images, render_grid_images: the render inside `try`, and
\* output.put() of the render or, from `except Exception`, of None;
\* generate_grid_thumbnails: the thumbnail or (source, None, None).
W_Render(w, ok) ==
    /\ w \in Renderers(rm_kind)
    /\ rm_kind # "anim"
    /\ rw_pc[w] = "render"
    /\ render_out' = Append(render_out, WorkerResult(rw_job[w].id, ok))
    /\ rw_pc' = [rw_pc EXCEPT ![w] = "get"]
    /\ UNCHANGED <<rm_kind, rm_pc, rm_how, rm_sent, rm_last, sentinels,
                   render_in, rw_job, rw_block, rw_frames, rw_taken, RwOthers>>

\* After the loop: clear_queue(output), then the worker ends.
W_ClearOut(w) ==
    /\ w \in Renderers(rm_kind)
    /\ rw_pc[w] = "clear_out"
    /\ IF render_out # <<>>
       THEN render_out' = Tail(render_out) /\ UNCHANGED rw_pc
       ELSE rw_pc' = [rw_pc EXCEPT ![w] = "exited"] /\ UNCHANGED render_out
    /\ UNCHANGED <<rm_kind, rm_pc, rm_how, rm_sent, rm_last, sentinels,
                   render_in, rw_job, rw_block, rw_frames, rw_taken, RwOthers>>

\* render_frames: input.get(block); with block false and nothing queued,
\* Empty is raised and the next frame is rendered.
FR_Get(w) ==
    /\ w \in Renderers(rm_kind)
    /\ rm_kind = "anim"
    /\ rw_pc[w] = "get"
    /\ IF render_in # <<>>
       THEN Taken(w, Head(render_in), "data")
       ELSE /\ ~rw_block[w]
            /\ rw_pc' = [rw_pc EXCEPT ![w] = "frame"]
            /\ UNCHANGED <<render_in, rw_job, rw_taken>>
    /\ UNCHANGED <<rm_kind, rm_pc, rm_how, rm_sent, rm_last, sentinels,
                   render_out, rw_block, rw_frames, RwOthers>>

\* render_frames, `except Empty`: output.put() of the next frame; of
\* (None,) * 5 at StopIteration or when the frame cannot be rendered, and then
\* block = True.
FR_Frame(w, ok) ==
    /\ w \in Renderers(rm_kind)
    /\ rm_kind = "anim"
    /\ rw_pc[w] = "frame"
    /\ Len(render_out) < FRAME_RENDER_OUT_SIZE
    /\ IF ok /\ rw_frames[w] > 0
       THEN /\ render_out' = Append(render_out, WorkerResult(rw_job[w].id, TRUE))
            /\ rw_frames' = [rw_frames EXCEPT ![w] = @ - 1]
            /\ UNCHANGED rw_block
       ELSE /\ render_out' = Append(render_out, WorkerResult(rw_job[w].id, FALSE))
            /\ rw_block' = [rw_block EXCEPT ![w] = TRUE]
            /\ UNCHANGED rw_frames
    /\ rw_pc' = [rw_pc EXCEPT ![w] = "get"]
    /\ UNCHANGED <<rm_kind, rm_pc, rm_how, rm_sent, rm_last, sentinels,
                   render_in, rw_job, rw_taken, RwOthers>>

\* render_frames, `data is ...`: the animator is closed, the output queue
\* cleared and `ready` set.
FR_Reset(w) ==
    /\ w \in Renderers(rm_kind)
    /\ rm_kind = "anim"
    /\ rw_pc[w] = "data"
    /\ rw_job[w].type = "reset"
    /\ render_out' = <<>>
    /\ rw_block' = [rw_block EXCEPT ![w] = TRUE]
    /\ rw_frames' = [rw_frames EXCEPT ![w] = 0]
    /\ rw_pc' = [rw_pc EXCEPT ![w] = "get"]
    /\ UNCHANGED <<rm_kind, rm_pc, rm_how, rm_sent, rm_last, sentinels,
                   render_in, rw_job, rw_taken, RwOthers>>

\* render_frames, a new image or a size change: ImageClass.from_file(data) /
\* ImageIterator(...), next(animator), animator.seek(frame_no) and
\* image.set_size(); then block = False.
FR_Animate(w) ==
    /\ w \in Renderers(rm_kind)
    /\ rm_kind = "anim"
    /\ rw_pc[w] = "data"
    /\ rw_job[w].type \in {"new", "resize"}
    /\ rw_frames' = [rw_frames EXCEPT ![w] = N_FRAMES]
    /\ rw_block' = [rw_block EXCEPT ![w] = FALSE]
    /\ rw_pc' = [rw_pc EXCEPT ![w] = "get"]
    /\ UNCHANGED <<rm_kind, rm_pc, rm_how, rm_sent, rm_last, sentinels,
                   render_in, render_out, rw_job, rw_taken, RwOthers>>

\* render_frames, a new image or a size change: one of those calls raises
\* (the file cannot be decoded, the first frame cannot be rendered); they are
\* in the `else` clause of the `try`, no handler catches the exception, and
\* FrameRenderer ends.
FR_Raise(w) ==
    /\ w \in Renderers(rm_kind)
    /\ rm_kind = "anim"
    /\ rw_pc[w] = "data"
    /\ rw_job[w].type \in {"new", "resize"}
    /\ rw_pc' = [rw_pc EXCEPT ![w] = "raised"]
    /\ UNCHANGED <<rm_kind, rm_pc, rm_how, rm_sent, rm_last, sentinels,
                   render_in, render_out, rw_job, rw_block, rw_frames, rw_taken,
                   RwOthers>>

RenderManager ==
    \/ \E type \in {"job", "reset", "new", "resize"} : RM_Send(type)
    \/ RM_Take
    \/ \E how \in {"break", "exception"} : RM_Leave(how)
    \/ RM_ClearIn
    \/ RM_PutSentinel
    \/ RM_ClearOut
    \/ RM_Join

RenderWorkers ==
    \/ \E w \in AllRenderers : W_Start(w)
    \/ \E w \in AllRenderers : W_StartFail(w)
    \/ \E w \in AllRenderers : W_Get(w)
    \/ \E w \in AllRenderers, ok \in BOOLEAN : W_Render(w, ok)
    \/ \E w \in AllRenderers : W_ClearOut(w)
    \/ \E w \in AllRenderers : FR_Get(w)
    \/ \E w \in AllRenderers, ok \in BOOLEAN : FR_Frame(w, ok)
    \/ \E w \in AllRenderers : FR_Reset(w)
    \/ \E w \in AllRenderers : FR_Animate(w)
    \/ \E w \in AllRenderers : FR_Raise(w)

\* A manager that has just started its workers.
RenderInit(kind) ==
    /\ rm_kind = kind
    /\ rm_pc = "loop"
    /\ rm_how = "none"
    /\ rm_sent = 0
    /\ rm_last = "none"
    /\ sentinels = 0
    /\ render_in = <<>>
    /\ render_out = <<>>
    /\ rw_pc = [w \in Renderers(kind) |-> "start"]
    /\ rw_job = [w \in Renderers(kind) |-> NoWorkerJob]
    /\ rw_block = [w \in Renderers(kind) |-> TRUE]
    /\ rw_frames = [w \in Renderers(kind) |-> 0]
    /\ rw_taken = [w \in Renderers(kind) |-> 0]

\* ------------------------------------------------- single image renders
\* widgets.Image.render ("Rendering"), manage_image_renders and render_images:
\* the displayed widget requests its render, ImageRenderManager passes the
\* request on unless it is to be skipped, ImageRenderer renders, and the
\* manager installs the result unless it is to be skipped.

ImOthers == <<pipelineVars, scanVars, parVars, sessVars, rwVars, sortVars, navVars,
              animVars, confVars, mergeVars, lockVars>>

\* The Image widgets of two entries of the menu.
Widgets == {"w1", "w2"}
NoWidget == "None"

\* An item of image_render_in: (source, size, alpha, faulty).
ImageJob(w, faulty) == [widget |-> w, faulty |-> faulty]
NoImageJob == ImageJob(NoWidget, FALSE)

\* tui/main.py: another entry is selected and its widget displayed.
IM_Display(w) ==
    /\ w # image_box
    /\ image_box' = w
    /\ UNCHANGED <<undecodable, image_requests, image_render_queue,
                   image_render_in, image_render_out, irm_pc, image_w,
                   last_image_w, ir_job, _ti_faulty, _ti_rendering, _ti_canv,
                   fault_logs, ImOthers>>

\* Image.render: the size of the displayed widget has changed, so its canvas
\* is not valid for it any more.
IM_Resize ==
    /\ _ti_canv[image_box] # "None"
    /\ _ti_canv' = [_ti_canv EXCEPT ![image_box] = "None"]
    /\ UNCHANGED <<undecodable, image_box, image_requests, image_render_queue,
                   image_render_in, image_render_out, irm_pc, image_w,
                   last_image_w, ir_job, _ti_faulty, _ti_rendering, fault_logs,
                   ImOthers>>

\* Image.render: the displayed widget has no valid canvas and is not being
\* rendered: _ti_rendering = True; image_render_queue.put((self, size, alpha)).
IM_Request ==
    /\ image_requests < MaxImageRequests
    /\ _ti_canv[image_box] = "None"
    /\ ~_ti_rendering[image_box]
    /\ _ti_rendering' = [_ti_rendering EXCEPT ![image_box] = TRUE]
    /\ image_render_queue' = Append(image_render_queue, image_box)
    /\ image_requests' = image_requests + 1
    /\ UNCHANGED <<undecodable, image_box, image_render_in, image_render_out,
                   irm_pc, image_w, last_image_w, ir_job, _ti_faulty, _ti_canv,
                   fault_logs, ImOthers>>

\* manage_image_renders.not_skip: image_w is image_box.original_widget and
\* image_render_queue.empty()
NotSkip(w, queue) == w = image_box /\ queue = <<>>

\* The mark is left on the widget.
DelRendering_Kept(w) == _ti_rendering

\* manage_image_renders: `del image_w._ti_rendering`
DelRendering(w) == [_ti_rendering EXCEPT ![w] = FALSE]

\* manage_image_renders: image_render_queue.get(); a request to be skipped
\* loses its _ti_rendering mark, any other goes to the renderer with the
\* widget's _ti_faulty.
IRM_Get ==
    /\ irm_pc = "get"
    /\ image_render_queue # <<>>
    /\ LET w == Head(image_render_queue) IN
       /\ image_render_queue' = Tail(image_render_queue)
       /\ image_w' = w
       /\ IF NotSkip(w, Tail(image_render_queue))
          THEN /\ image_render_in' = Append(image_render_in,
                                            ImageJob(w, _ti_faulty[w]))
               /\ irm_pc' = "result"
               /\ UNCHANGED _ti_rendering
          ELSE /\ _ti_rendering' = DelRendering(w)
               /\ UNCHANGED <<image_render_in, irm_pc>>
    /\ UNCHANGED <<undecodable, image_box, image_requests, image_render_out,
                   last_image_w, ir_job, _ti_faulty, _ti_canv, fault_logs,
                   ImOthers>>

\* manage_image_renders: image_render_out.get() and `if not_skip():`; a result
\* to be skipped is dropped and the widget loses its _ti_rendering mark.
IRM_Result ==
    /\ irm_pc = "result"
    /\ image_render_out # <<>>
    /\ image_render_out' = Tail(image_render_out)
    /\ IF NotSkip(image_w, image_render_queue)
       THEN /\ irm_pc' = IF Head(image_render_out) THEN "install"
                         ELSE "install_faulty"
            /\ UNCHANGED _ti_rendering
       ELSE /\ irm_pc' = "get"
            /\ _ti_rendering' = DelRendering(image_w)
    /\ UNCHANGED <<undecodable, image_box, image_requests, image_render_queue,
                   image_render_in, image_w, last_image_w, ir_job, _ti_faulty,
                   _ti_canv, fault_logs, ImOthers>>

\* manage_image_renders, the body of `if not_skip():`: last_image_w loses its
\* canvas and image_w gets the render or the faulty image, with _ti_faulty
\* set; then `del image_w._ti_rendering`.
IRM_Install ==
    /\ irm_pc \in {"install", "install_faulty"}
    /\ _ti_canv' = [[_ti_canv EXCEPT ![last_image_w] = "None"]
                        EXCEPT ![image_w] = IF irm_pc = "install" THEN "image"
                                            ELSE "faulty"]
    /\ _ti_faulty' = IF irm_pc = "install" THEN _ti_faulty
                     ELSE [_ti_faulty EXCEPT ![image_w] = TRUE]
    /\ last_image_w' = image_w
    /\ _ti_rendering' = DelRendering(image_w)
    /\ irm_pc' = "get"
    /\ UNCHANGED <<undecodable, image_box, image_requests, image_render_queue,
                   image_render_in, image_render_out, image_w, ir_job,
                   fault_logs, ImOthers>>

\* render_images: input.get()
IR_Get ==
    /\ ir_job = NoImageJob
    /\ image_render_in # <<>>
    /\ ir_job' = Head(image_render_in)
    /\ image_render_in' = Tail(image_render_in)
    /\ UNCHANGED <<undecodable, image_box, image_requests, image_render_queue,
                   image_render_out, irm_pc, image_w, last_image_w, _ti_faulty,
                   _ti_rendering, _ti_canv, fault_logs, ImOthers>>

\* render_images: the render is put on the output queue; from
\* `except Exception`, (None, None) is put and, `if not faulty`, the exception
\* is logged.
IR_Render ==
    /\ ir_job # NoImageJob
    /\ IF ir_job.widget \in undecodable
       THEN /\ image_render_out' = Append(image_render_out, FALSE)
            /\ fault_logs' = IF ir_job.faulty THEN fault_logs
                             ELSE [fault_logs EXCEPT ![ir_job.widget] = @ + 1]
       ELSE /\ image_render_out' = Append(image_render_out, TRUE)
            /\ UNCHANGED fault_logs
    /\ ir_job' = NoImageJob
    /\ UNCHANGED <<undecodable, image_box, image_requests, image_render_queue,
                   image_render_in, irm_pc, image_w, last_image_w, _ti_faulty,
                   _ti_rendering, _ti_canv, ImOthers>>

ImageWidgets ==
    \/ \E w \in Widgets : IM_Display(w)
    \/ IM_Resize
    \/ IM_Request
ImageRenderManager == IRM_Get \/ IRM_Result \/ IRM_Install
ImageRenderer == IR_Get \/ IR_Render

\* ImageRenderManager when it has started ImageRenderer: no widget has been
\* rendered yet.
ImageInit(bad) ==
    /\ undecodable = bad
    /\ image_box = "w1"
    /\ image_requests = 0
    /\ image_render_queue = <<>>
    /\ image_render_in = <<>>
    /\ image_render_out = <<>>
    /\ irm_pc = "get"
    /\ image_w = NoWidget
    /\ last_image_w = "w1"
    /\ ir_job = NoImageJob
    /\ _ti_faulty = [w \in Widgets |-> FALSE]
    /\ _ti_rendering = [w \in Widgets |-> FALSE]
    /\ _ti_canv = [w \in Widgets |-> "None"]
    /\ fault_logs = [w \in Widgets |-> 0]

\* ------------------------------------------------ the order of a listing
\* tui/main.py: sort_key_lexi, as scan_dir applies it:
\* _entries = sorted(os.scandir(dir), key=sort_key or sort_key_lexi).
\* A string is the sequence of the code points of its characters.

SortOthers == <<pipelineVars, scanVars, parVars, sessVars, rwVars, imVars, navVars,
                animVars, confVars, mergeVars, lockVars>>

\* ".", "A" and "a"
Dot == 46
NameChars == {Dot, 65, 97}

\* Python's order of strings: by code point, a proper prefix first.
RECURSIVE StrLess(_, _)
StrLess(s, t) ==
    IF t = <<>> THEN FALSE
    ELSE IF s = <<>> THEN TRUE
    ELSE IF Head(s) # Head(t) THEN Head(s) < Head(t)
    ELSE StrLess(Tail(s), Tail(t))

\* name.lstrip(".")
RECURSIVE lstrip(_)
lstrip(name) ==
    IF name # <<>> /\ Head(name) = Dot THEN lstrip(Tail(name)) ELSE name

\* str.casefold(), on the letters of NameChars
casefold(s) == [i \in DOMAIN s |-> IF s[i] \in 65..90 THEN s[i] + 32 ELSE s[i]]

\* "\0" * (not name.startswith("."))
HiddenMark_Swapped(name) ==
    IF name # <<>> /\ Head(name) = Dot THEN <<0>> ELSE <<>>
HiddenMark(name) ==
    IF name # <<>> /\ Head(name) = Dot THEN <<>> ELSE <<0>>

\* chr(entry.is_file()) + name.lstrip(".").casefold()
\*     + "\0" * (not name.startswith("."))
sort_key_lexi(entry) ==
    <<IF entry.is_file THEN 1 ELSE 0>>
        \o casefold(lstrip(entry.name)) \o HiddenMark(entry.name)

\* sorted(): an entry goes behind every entry whose key is not greater than
\* its own, so that entries of equal keys keep their order.
RECURSIVE Insert(_, _)
Insert(entry, seq) ==
    IF seq = <<>> THEN <<entry>>
    ELSE IF StrLess(sort_key_lexi(entry), sort_key_lexi(Head(seq)))
         THEN <<entry>> \o seq
         ELSE <<Head(seq)>> \o Insert(entry, Tail(seq))
RECURSIVE sorted(_)
sorted(seq) ==
    IF seq = <<>> THEN <<>>
    ELSE Insert(Last(seq), sorted(SubSeq(seq, 1, Len(seq) - 1)))

\* The names a directory can hold: "." and ".." are never listed.
Names ==
    UNION {[1..n -> NameChars] : n \in 1..MaxNameLen}
        \ {s \in UNION {[1..n -> NameChars] : n \in 1..MaxNameLen} :
               \A i \in DOMAIN s : s[i] = Dot}
Listed(name, is_file) == [name |-> name, is_file |-> is_file]
DirEntries == {Listed(name, f) : name \in Names, f \in BOOLEAN}

\* The orders in which os.scandir can yield the entries.
ScandirOrders(entries) ==
    {seq \in [1..Cardinality(entries) -> entries] :
        \A i, j \in DOMAIN seq : i # j => seq[i] # seq[j]}

\* os.scandir(dir) yields one more entry; no two entries of a directory have
\* the same name.
ScanDir_Yield(entry) ==
    /\ _entries = <<>>
    /\ Cardinality(dir_entries) < MaxEntries
    /\ \A other \in dir_entries : other.name # entry.name
    /\ dir_entries' = dir_entries \cup {entry}
    /\ UNCHANGED <<_entries, SortOthers>>

\* scan_dir: _entries = sorted(os.scandir(dir), key=sort_key_lexi)
ScanDir_Sorted ==
    /\ _entries = <<>>
    /\ dir_entries # {}
    /\ \E order \in ScandirOrders(dir_entries) : _entries' = sorted(order)
    /\ UNCHANGED <<dir_entries, SortOthers>>

\* Before scan_dir lists a directory.
SortInit ==
    /\ dir_entries = {}
    /\ _entries = <<>>

\* ------------------------------------------------------------ animations
\* tui/render.py: manage_anim_renders (AnimRenderManager) with its next_frame
\* and not_skip, and render_frames (FrameRenderer); widgets.Image.render and
\* main.animate_image as far as they start and restart an animation.  A
\* render is never forced (`forced` is false) and FrameRenderer renders every
\* image it is given.  With logging.MULTI, frame_render_out is a
\* multiprocessing queue: what FrameRenderer puts takes "a little while" to
\* appear at the other end (utils.py:13-16, render.py:285).

AnimOthers == <<pipelineVars, scanVars, parVars, sessVars, rwVars, sortVars,
                navVars, undecodable, image_requests, image_render_queue,
                image_render_in, image_render_out, irm_pc, image_w,
                last_image_w, ir_job, _ti_faulty, _ti_rendering, _ti_canv,
                fault_logs, confVars, mergeVars, lockVars>>
animWidgets == <<_ti_anim_ongoing, _ti_frame, _ti_anim_finished>>
animManager == <<arm_pc, arm_data, anim_image_w, frame_duration, arm_site,
                 arm_frame>>
animWorker == <<fr_pc, fr_data, fr_block, animator, fr_left>>
animOut == <<frame_render_out, frame_render_out_buffer>>

\* An item of anim_render_queue: (image_w, size, forced) for a new animation,
\* ((repeat, frame_no), size, forced) for a change of size.
AnimItem(type, w) == [type |-> type, w |-> w]
NoAnimItem == AnimItem("none", NoWidget)

\* The reset token on frame_render_in: (..., None, None)
ResetToken == WorkerJob("reset", 0)

\* main.display_images and animate_image: another animated image is displayed;
\* its _ti_anim_finished is removed or, when it has none, its
\* _ti_anim_ongoing, and its _ti_frame.
AM_Display(w) ==
    /\ w # image_box
    /\ image_box' = w
    /\ _ti_anim_ongoing' = IF _ti_anim_finished[w] THEN _ti_anim_ongoing
                           ELSE [_ti_anim_ongoing EXCEPT ![w] = FALSE]
    /\ _ti_anim_finished' = [_ti_anim_finished EXCEPT ![w] = FALSE]
    /\ _ti_frame' = [_ti_frame EXCEPT ![w] = FALSE]
    /\ UNCHANGED <<MULTI, anim_render_queue, anim_requests, animManager,
                   frame_render_in, animOut, ready, frame_jobs, animWorker,
                   AnimOthers>>

\* Image.render, "is it an unfinished animation?": the displayed image has no
\* ongoing animation; anim_render_queue.put((self, size, force)).
AM_Request ==
    /\ anim_requests < MaxAnimRequests
    /\ ~_ti_frame[image_box]
    /\ ~_ti_anim_finished[image_box]
    /\ ~_ti_anim_ongoing[image_box]
    /\ anim_render_queue' = Append(anim_render_queue, AnimItem("image", image_box))
    /\ _ti_anim_ongoing' = [_ti_anim_ongoing EXCEPT ![image_box] = TRUE]
    /\ anim_requests' = anim_requests + 1
    /\ UNCHANGED <<MULTI, image_box, _ti_frame, _ti_anim_finished, animManager,
                   frame_render_in, animOut, ready, frame_jobs, animWorker,
                   AnimOthers>>

\* Image.render, "has the image render size changed?": the displayed image
\* has a frame of another size; anim_render_queue.put(((repeat, frame_no),
\* size, force)) and _ti_frame = None.
AM_SizeChange ==
    /\ anim_requests < MaxAnimRequests
    /\ _ti_frame[image_box]
    /\ anim_render_queue' = Append(anim_render_queue, AnimItem("size", NoWidget))
    /\ _ti_frame' = [_ti_frame EXCEPT ![image_box] = FALSE]
    /\ anim_requests' = anim_requests + 1
    /\ UNCHANGED <<MULTI, image_box, _ti_anim_ongoing, _ti_anim_finished,
                   animManager, frame_render_in, animOut, ready, frame_jobs,
                   animWorker, AnimOthers>>

\* manage_anim_renders.not_skip: image_w is image_box.original_widget and
\* anim_render_queue.empty()
AnimNotSkip(w) == w = image_box /\ anim_render_queue = <<>>

\* manage_anim_renders: anim_render_queue.get(timeout=frame_duration); at the
\* timeout, Empty is raised and next_frame() called.
ARM_Get ==
    /\ arm_pc = "get"
    /\ IF anim_render_queue # <<>>
       THEN /\ arm_data' = Head(anim_render_queue)
            /\ anim_render_queue' = Tail(anim_render_queue)
            /\ arm_pc' = "empty"
            /\ UNCHANGED arm_site
       ELSE /\ frame_duration
            /\ arm_pc' = "next_frame"
            /\ arm_site' = "timeout"
            /\ UNCHANGED <<arm_data, anim_render_queue>>
    /\ UNCHANGED <<MULTI, image_box, animWidgets, anim_requests, anim_image_w,
                   frame_duration, arm_frame, frame_render_in, animOut, ready,
                   frame_jobs, animWorker, AnimOthers>>

\* manage_anim_renders: `if anim_render_queue.empty():`, whether FrameRenderer
\* is reset before the request is handled.
ResetsRenderer == anim_render_queue = <<>>

\* manage_anim_renders: `if anim_render_queue.empty(): ready.clear()`
ARM_CheckEmpty ==
    /\ arm_pc = "empty"
    /\ IF ResetsRenderer
       THEN ready' = FALSE /\ arm_pc' = "put_reset"
       ELSE arm_pc' = "dispatch" /\ UNCHANGED ready
    /\ UNCHANGED <<MULTI, image_box, animWidgets, anim_render_queue,
                   anim_requests, arm_data, anim_image_w, frame_duration,
                   arm_site, arm_frame, frame_render_in, animOut, frame_jobs,
                   animWorker, AnimOthers>>

\* manage_anim_renders: frame_render_in.put((..., None, None))
ARM_PutReset ==
    /\ arm_pc = "put_reset"
    /\ frame_render_in' = Append(frame_render_in, ResetToken)
    /\ arm_pc' = "clear_full"
    /\ UNCHANGED <<MULTI, image_box, animWidgets, anim_render_queue,
                   anim_requests, arm_data, anim_image_w, frame_duration,
                   arm_site, arm_frame, animOut, ready, frame_jobs, animWorker,
                   AnimOthers>>

\* manage_anim_renders: clear_queue(frame_render_out)  # In case output is
\* full; one get(timeout) a step, until Empty.
ARM_ClearFull ==
    /\ arm_pc = "clear_full"
    /\ IF frame_render_out # <<>>
       THEN frame_render_out' = Tail(frame_render_out) /\ UNCHANGED arm_pc
       ELSE arm_pc' = "wait" /\ UNCHANGED frame_render_out
    /\ UNCHANGED <<MULTI, image_box, animWidgets, anim_render_queue,
                   anim_requests, arm_data, anim_image_w, frame_duration,
                   arm_site, arm_frame, frame_render_in,
                   frame_render_out_buffer, ready, frame_jobs, animWorker,
                   AnimOthers>>

\* manage_anim_renders: ready.wait()
ARM_ReadyWait ==
    /\ arm_pc = "wait"
    /\ ready
    /\ arm_pc' = "clear_ready"
    /\ UNCHANGED <<MULTI, image_box, animWidgets, anim_render_queue,
                   anim_requests, arm_data, anim_image_w, frame_duration,
                   arm_site, arm_frame, frame_render_in, animOut, ready,
                   frame_jobs, animWorker, AnimOthers>>

\* manage_anim_renders: clear_queue(frame_render_out), after ready.wait()
ARM_ClearReady ==
    /\ arm_pc = "clear_ready"
    /\ IF frame_render_out # <<>>
       THEN frame_render_out' = Tail(frame_render_out) /\ UNCHANGED arm_pc
       ELSE arm_pc' = "dispatch" /\ UNCHANGED frame_render_out
    /\ UNCHANGED <<MULTI, image_box, animWidgets, anim_render_queue,
                   anim_requests, arm_data, anim_image_w, frame_duration,
                   arm_site, arm_frame, frame_render_in,
                   frame_render_out_buffer, ready, frame_jobs, animWorker,
                   AnimOthers>>

\* manage_anim_renders: the request is handled.  A change of size is sent to
\* FrameRenderer if not to be skipped; a new image becomes image_w and is
\* sent if not to be skipped, with image_w._ti_frame = None.  next_frame() is
\* called for what was sent.
ARM_Dispatch ==
    /\ arm_pc = "dispatch"
    /\ LET w == IF arm_data.type = "image" THEN arm_data.w ELSE anim_image_w
           type == IF arm_data.type = "image" THEN "new" ELSE "resize"
       IN  /\ anim_image_w' = w
           /\ IF AnimNotSkip(w)
              THEN /\ frame_render_in' =
                          Append(frame_render_in, WorkerJob(type, frame_jobs + 1))
                   /\ frame_jobs' = frame_jobs + 1
                   /\ arm_pc' = "next_frame"
                   /\ arm_site' = type
                   /\ _ti_frame' = IF type = "new"
                                   THEN [_ti_frame EXCEPT ![w] = FALSE]
                                   ELSE _ti_frame
                   /\ frame_duration' = (type = "resize" /\ frame_duration)
              ELSE /\ arm_pc' = "get"
                   /\ frame_duration' = (type = "resize" /\ w = image_box
                                            /\ frame_duration)
                   /\ UNCHANGED <<frame_render_in, frame_jobs, arm_site,
                                  _ti_frame>>
    /\ arm_data' = NoAnimItem
    /\ UNCHANGED <<MULTI, image_box, _ti_anim_ongoing, _ti_anim_finished,
                   anim_render_queue, anim_requests, arm_frame, animOut, ready,
                   animWorker, AnimOthers>>

\* next_frame: frame_render_out.get(); a frame not to be skipped is installed
\* (or the animation marked as finished); for a frame of an image that is not
\* displayed any more, FrameRenderer is reset.
ARM_NextFrame ==
    /\ arm_pc = "next_frame"
    /\ frame_render_out # <<>>
    /\ LET frame == Head(frame_render_out).render
           w == anim_image_w
       IN  /\ frame_render_out' = Tail(frame_render_out)
           /\ IF AnimNotSkip(w)
              THEN /\ _ti_frame' = IF frame THEN [_ti_frame EXCEPT ![w] = TRUE]
                                   ELSE _ti_frame
                   /\ _ti_anim_finished' =
                          IF frame THEN _ti_anim_finished
                          ELSE [_ti_anim_finished EXCEPT ![w] = TRUE]
                   /\ arm_frame' = frame
                   /\ arm_pc' = "end_frame"
                   /\ UNCHANGED frame_render_in
              ELSE IF w # image_box
                   THEN /\ frame_render_in' = Append(frame_render_in, ResetToken)
                        /\ arm_frame' = FALSE
                        /\ arm_pc' = "clear_skipped"
                        /\ UNCHANGED <<_ti_frame, _ti_anim_finished>>
                   ELSE /\ arm_frame' = frame
                        /\ arm_pc' = "end_frame"
                        /\ UNCHANGED <<frame_render_in, _ti_frame,
                                       _ti_anim_finished>>
    /\ UNCHANGED <<MULTI, image_box, _ti_anim_ongoing, anim_render_queue,
                   anim_requests, arm_data, anim_image_w, frame_duration,
                   arm_site, frame_render_out_buffer, ready, frame_jobs,
                   animWorker, AnimOthers>>

\* next_frame: clear_queue(frame_render_out)  # In case output is full
ARM_ClearSkipped ==
    /\ arm_pc = "clear_skipped"
    /\ IF frame_render_out # <<>>
       THEN frame_render_out' = Tail(frame_render_out) /\ UNCHANGED arm_pc
       ELSE arm_pc' = "end_frame" /\ UNCHANGED frame_render_out
    /\ UNCHANGED <<MULTI, image_box, animWidgets, anim_render_queue,
                   anim_requests, arm_data, anim_image_w, frame_duration,
                   arm_site, arm_frame, frame_render_in,
                   frame_render_out_buffer, ready, frame_jobs, animWorker,
                   AnimOthers>>

\* next_frame: `if not frame:` the attributes of the animation are removed
\* (nothing more once one is missing); it returns bool(frame), by which the
\* caller sets frame_duration.
ARM_EndFrame ==
    /\ arm_pc = "end_frame"
    /\ IF ~arm_frame /\ _ti_anim_ongoing[anim_image_w]
       THEN /\ _ti_anim_ongoing' = [_ti_anim_ongoing EXCEPT ![anim_image_w] = FALSE]
            /\ _ti_frame' = [_ti_frame EXCEPT ![anim_image_w] = FALSE]
       ELSE UNCHANGED <<_ti_anim_ongoing, _ti_frame>>
    /\ frame_duration' = IF arm_site = "new" THEN arm_frame
                         ELSE frame_duration /\ arm_frame
    /\ arm_pc' = "get"
    /\ arm_site' = "none"
    /\ UNCHANGED <<MULTI, image_box, _ti_anim_finished, anim_render_queue,
                   anim_requests, arm_data, anim_image_w, arm_frame,
                   frame_render_in, animOut, ready, frame_jobs, animWorker,
                   AnimOthers>>

\* render_frames: input.get(block); with block false and nothing queued,
\* Empty is raised and the next frame is rendered.
AFR_Get ==
    /\ fr_pc = "get"
    /\ IF frame_render_in # <<>>
       THEN /\ fr_data' = Head(frame_render_in)
            /\ frame_render_in' = Tail(frame_render_in)
            /\ fr_pc' = "data"
       ELSE /\ ~fr_block
            /\ fr_pc' = "frame"
            /\ UNCHANGED <<fr_data, frame_render_in>>
    /\ UNCHANGED <<MULTI, image_box, animWidgets, anim_render_queue,
                   anim_requests, animManager, animOut, ready, frame_jobs,
                   fr_block, animator, fr_left, AnimOthers>>

\* render_frames, `except Empty`: output.put() of the next frame of the
\* animator; of (None,) * 5 at StopIteration or when the frame cannot be
\* rendered, and then block = True.  The put blocks while the queue is full.
AFR_Frame(ok) ==
    /\ fr_pc = "frame"
    /\ Len(frame_render_out) + Len(frame_render_out_buffer) < FRAME_RENDER_OUT_SIZE
    /\ LET frame == WorkerResult(animator, ok /\ fr_left > 0) IN
       IF MULTI
       THEN /\ frame_render_out_buffer' = Append(frame_render_out_buffer, frame)
            /\ UNCHANGED frame_render_out
       ELSE /\ frame_render_out' = Append(frame_render_out, frame)
            /\ UNCHANGED frame_render_out_buffer
    /\ IF ok /\ fr_left > 0
       THEN fr_left' = fr_left - 1 /\ UNCHANGED fr_block
       ELSE fr_block' = TRUE /\ UNCHANGED fr_left
    /\ fr_pc' = "get"
    /\ UNCHANGED <<MULTI, image_box, animWidgets, anim_render_queue,
                   anim_requests, animManager, frame_render_in, ready,
                   frame_jobs, fr_data, animator, AnimOthers>>

\* A multiprocessing queue: what was put appears at the other end.
AFR_Deliver ==
    /\ MULTI
    /\ frame_render_out_buffer # <<>>
    /\ frame_render_out' = Append(frame_render_out, Head(frame_render_out_buffer))
    /\ frame_render_out_buffer' = Tail(frame_render_out_buffer)
    /\ UNCHANGED <<MULTI, image_box, animWidgets, anim_render_queue,
                   anim_requests, animManager, frame_render_in, ready,
                   frame_jobs, animWorker, AnimOthers>>

\* render_frames, `data is ...`: animator.close()
AFR_Reset ==
    /\ fr_pc = "data"
    /\ fr_data.type = "reset"
    /\ animator' = 0
    /\ fr_left' = 0
    /\ fr_pc' = "clear"
    /\ UNCHANGED <<MULTI, image_box, animWidgets, anim_render_queue,
                   anim_requests, animManager, frame_render_in, animOut, ready,
                   frame_jobs, fr_data, fr_block, AnimOthers>>

\* render_frames, `data is ...`: clear_queue(output), one get(timeout) a step,
\* then ready.set() and block = True.
AFR_ClearOut ==
    /\ fr_pc = "clear"
    /\ IF frame_render_out # <<>>
       THEN /\ frame_render_out' = Tail(frame_render_out)
            /\ UNCHANGED <<ready, fr_block, fr_pc>>
       ELSE /\ ready' = TRUE
            /\ fr_block' = TRUE
            /\ fr_pc' = "get"
            /\ UNCHANGED frame_render_out
    /\ UNCHANGED <<MULTI, image_box, animWidgets, anim_render_queue,
                   anim_requests, animManager, frame_render_in,
                   frame_render_out_buffer, frame_jobs, fr_data, animator,
                   fr_left, AnimOthers>>

\* render_frames, a new image or a change of size: the animator is made,
\* block = False.
AFR_Animate ==
    /\ fr_pc = "data"
    /\ fr_data.type \in {"new", "resize"}
    /\ animator' = fr_data.id
    /\ fr_left' = N_FRAMES
    /\ fr_block' = FALSE
    /\ fr_pc' = "get"
    /\ UNCHANGED <<MULTI, image_box, animWidgets, anim_render_queue,
                   anim_requests, animManager, frame_render_in, animOut, ready,
                   frame_jobs, fr_data, AnimOthers>>

AnimWidgets ==
    \/ \E w \in Widgets : AM_Display(w)
    \/ AM_Request
    \/ AM_SizeChange

AnimRenderManager ==
    \/ ARM_Get
    \/ ARM_CheckEmpty
    \/ ARM_PutReset
    \/ ARM_ClearFull
    \/ ARM_ReadyWait
    \/ ARM_ClearReady
    \/ ARM_Dispatch
    \/ ARM_NextFrame
    \/ ARM_ClearSkipped
    \/ ARM_EndFrame

FrameRenderer ==
    \/ AFR_Get
    \/ \E ok \in BOOLEAN : AFR_Frame(ok)
    \/ AFR_Deliver
    \/ AFR_Reset
    \/ AFR_ClearOut
    \/ AFR_Animate

\* AnimRenderManager when it has started FrameRenderer.
AnimInit(multi) ==
    /\ MULTI = multi
    /\ _ti_anim_ongoing = [w \in Widgets |-> FALSE]
    /\ _ti_frame = [w \in Widgets |-> FALSE]
    /\ _ti_anim_finished = [w \in Widgets |-> FALSE]
    /\ anim_render_queue = <<>>
    /\ anim_requests = 0
    /\ arm_pc = "get"
    /\ arm_data = NoAnimItem
    /\ anim_image_w = NoWidget
    /\ frame_duration = FALSE
    /\ arm_site = "none"
    /\ arm_frame = FALSE
    /\ frame_render_in = <<>>
    /\ frame_render_out = <<>>
    /\ frame_render_out_buffer = <<>>
    /\ ready = FALSE
    /\ frame_jobs = 0
    /\ fr_pc = "get"
    /\ fr_data = NoWorkerJob
    /\ fr_block = TRUE
    /\ animator = 0
    /\ fr_left = 0

\* ------------------------------------------- the menu and the grid scans
\* tui/main.py: display_images (run by MainThread, one step for every
\* position or action the key handlers send), scan_dir_grid (GridScanner) and
\* scan_dir_menu (MenuScanner). The call of resync_grid_rendering() in
\* display_images is the subject of the grid pipeline above.

NavOthers == <<ui_pc, ui_src, resyncs, requests, enqueued, flagVars, cacheVars,
               grmVars, gtmVars, genVars, queueVars, grid_cache, worker_job,
               not_generating, thumbnail_files, batch0, processed, resyncVars,
               scanVars,
               parVars, sessVars, rwVars, imVars, sortVars, animVars, confVars, mergeVars, lockVars>>
navMain == <<nav_pc, nav_pos, frames, nav_inputs>>
navGrid == <<gs_pc, gs_dir, grid_list, gs_entries, gs_cwd>>
navMenu == <<ms_pc, ms_items, ms_entries, ms_cwd>>
navMenuEvents == <<menu_acknowledge, menu_change, menu_scan_done>>

\* MenuAction.OPEN, MenuAction.BACK and the `None` of pos and prev_pos
OPEN == -2
BACK == -3
NoPos == -9

\* The top-level directory holds the directory D and the image x; D holds
\* the directory s and the image a; s holds the images p and q.
NoDir == "missing"
Child(dir, name) ==
    CASE name = "." -> dir
      [] dir = "T" /\ name = "D" -> "D"
      [] dir = "D" /\ name = "s" -> "S"
      [] OTHER -> NoDir
Item(name, is_dir) == [name |-> name, is_dir |-> is_dir]

\* sorted(os.scandir(dir), key=sort_key_lexi), without what scan_dir_entry
\* finds to be neither an image nor a directory of `contents`
Listing(dir) ==
    CASE dir = "T" -> <<Item("D", TRUE), Item("x", FALSE)>>
      [] dir = "D" -> <<Item("s", TRUE), Item("a", FALSE)>>
      [] dir = "S" -> <<Item("p", FALSE), Item("q", FALSE)>>
      [] OTHER -> <<>>

\* No list object (_grid_list = None)
NoList == 0
\* The list `images` that tui.init passes to display_images.
TopList == 1

Frame(dir, items, top_level, prev_dir) ==
    [dir |-> dir, items |-> items, top_level |-> top_level,
     prev_dir |-> prev_dir, prev_pos |-> NoPos, menu_is_complete |-> FALSE]
ThisFrame == frames[Len(frames)]
SetFrame(field, value) ==
    [frames EXCEPT ![Len(frames)] = [@ EXCEPT ![field] = value]]
ItemsOf(frame) == lists[frame.items]

\* display_images, from os.chdir(dir) to update_menu(items, top_level): a
\* directory that is not there raises FileNotFoundError.
Nav_Enter ==
    /\ nav_pc = "enter"
    /\ LET dir == Child(tui_cwd, ThisFrame.dir)
           menu_is_complete == ThisFrame.top_level \/ grid_scan_done
       IN  IF dir = NoDir
           THEN /\ nav_pc' = "raised"
                /\ UNCHANGED <<tui_cwd, menu_scan_done, frames, nav_pos>>
           ELSE /\ tui_cwd' = dir
                /\ menu_scan_done' = menu_is_complete
                /\ frames' = SetFrame("menu_is_complete", menu_is_complete)
                /\ nav_pos' = IF ThisFrame.top_level THEN 0 ELSE -1
                /\ nav_pc' = "put_menu"
    /\ UNCHANGED <<nav_inputs, lists, _grid_list, next_grid, next_menu,
                   grid_active, grid_acknowledge, grid_scan_done,
                   menu_acknowledge, menu_change, navGrid, navMenu, NavOthers>>

\* display_images: next_menu.put((items, contents, menu_is_complete)), on
\* entry and after the return from a sub-directory.
Nav_PutMenu ==
    /\ nav_pc = "put_menu"
    /\ next_menu = <<>>
    /\ next_menu' = <<[items |-> ThisFrame.items,
                       menu_is_complete |-> ThisFrame.menu_is_complete]>>
    /\ nav_pc' = "dispatch"
    /\ UNCHANGED <<tui_cwd, nav_pos, frames, nav_inputs, lists, _grid_list,
                   next_grid, grid_active, grid_acknowledge, grid_scan_done,
                   navMenuEvents, navGrid, navMenu, NavOthers>>

\* display_images: the branch of `while True` that pos selects, up to its
\* first access to what the scanners share.
Nav_Dispatch ==
    /\ nav_pc = "dispatch"
    /\ LET f == ThisFrame
           items == ItemsOf(f)
       IN  CASE nav_pos = -1 ->
                  IF f.top_level /\ items # <<>>
                  THEN /\ nav_pos' = 0
                       /\ UNCHANGED <<nav_pc, frames, grid_active,
                                      grid_acknowledge>>
                  ELSE /\ grid_active' = FALSE
                       /\ frames' = SetFrame("prev_pos", -1)
                       /\ nav_pc' = "yield"
                       /\ UNCHANGED <<nav_pos, grid_acknowledge>>
             [] nav_pos = OPEN ->
                  /\ IF f.prev_pos = -1
                     THEN nav_pos' = BACK /\ UNCHANGED nav_pc
                     ELSE nav_pc' = "menu_read" /\ UNCHANGED nav_pos
                  /\ UNCHANGED <<frames, grid_active, grid_acknowledge>>
             [] nav_pos = BACK ->
                  /\ nav_pc' = IF f.top_level THEN "yield" ELSE "menu_read"
                  /\ UNCHANGED <<nav_pos, frames, grid_active, grid_acknowledge>>
             [] OTHER ->
                  IF items[nav_pos + 1].is_dir
                  THEN /\ grid_acknowledge' = FALSE
                       /\ nav_pc' = "sel_active"
                       /\ UNCHANGED <<nav_pos, frames, grid_active>>
                  ELSE /\ grid_active' = FALSE
                       /\ frames' = SetFrame("prev_pos", nav_pos)
                       /\ nav_pc' = "yield"
                       /\ UNCHANGED <<nav_pos, grid_acknowledge>>
    /\ UNCHANGED <<tui_cwd, nav_inputs, lists, _grid_list, next_grid, next_menu,
                   grid_scan_done, navMenuEvents, navGrid, navMenu, NavOthers>>

\* display_images, a directory entry: grid_active.set()
Nav_SelActive ==
    /\ nav_pc = "sel_active"
    /\ grid_active' = TRUE
    /\ nav_pc' = "sel_put"
    /\ UNCHANGED <<tui_cwd, nav_pos, frames, nav_inputs, lists, _grid_list,
                   next_grid, next_menu, grid_acknowledge, grid_scan_done,
                   navMenuEvents, navGrid, navMenu, NavOthers>>

\* display_images, a directory entry: next_grid.put((entry, contents[entry]))
Nav_SelPut ==
    /\ nav_pc = "sel_put"
    /\ next_grid = <<>>
    /\ next_grid' = <<ItemsOf(ThisFrame)[nav_pos + 1].name>>
    /\ nav_pc' = "sel_list"
    /\ UNCHANGED <<tui_cwd, nav_pos, frames, nav_inputs, lists, _grid_list,
                   next_menu, grid_active, grid_acknowledge, grid_scan_done,
                   navMenuEvents, navGrid, navMenu, NavOthers>>

\* display_images, a directory entry: _grid_list = []
Nav_SelList ==
    /\ nav_pc = "sel_list"
    /\ lists' = Append(lists, <<>>)
    /\ _grid_list' = Len(lists) + 1
    /\ nav_pc' = "sel_wait"
    /\ UNCHANGED <<tui_cwd, nav_pos, frames, nav_inputs, next_grid, next_menu,
                   grid_active, grid_acknowledge, grid_scan_done, navMenuEvents,
                   navGrid, navMenu, NavOthers>>

\* display_images, a directory entry: grid_acknowledge.wait(), then
\* `prev_pos = pos` and the yield.
Nav_SelWait ==
    /\ nav_pc = "sel_wait"
    /\ grid_acknowledge
    /\ frames' = SetFrame("prev_pos", nav_pos)
    /\ nav_pc' = "yield"
    /\ UNCHANGED <<tui_cwd, nav_pos, nav_inputs, lists, _grid_list, next_grid,
                   next_menu, grid_active, grid_acknowledge, grid_scan_done,
                   navMenuEvents, navGrid, navMenu, NavOthers>>

\* The positions and actions the key handlers can send: menu_nav sends any
\* position of the menu, open() sends OPEN on ".." and on a directory entry,
\* back() sends BACK; display_images ignores what equals prev_pos.
CanSend(pos) ==
    LET f == ThisFrame
        items == ItemsOf(f)
    IN  /\ pos # f.prev_pos
        /\ \/ pos \in -1..(Len(items) - 1)
           \/ pos = BACK
           \/ /\ pos = OPEN
              /\ \/ f.prev_pos = -1
                 \/ f.prev_pos \in 0..(Len(items) - 1)
                    /\ items[f.prev_pos + 1].is_dir

\* displayer.send(pos)
Nav_Send(pos) ==
    /\ nav_pc = "yield"
    /\ nav_inputs < MaxNavInputs
    /\ CanSend(pos)
    /\ nav_pos' = pos
    /\ nav_inputs' = nav_inputs + 1
    /\ nav_pc' = "dispatch"
    /\ UNCHANGED <<tui_cwd, frames, lists, _grid_list, next_grid, next_menu,
                   grid_active, grid_acknowledge, grid_scan_done, navMenuEvents,
                   navGrid, navMenu, NavOthers>>

\* display_images, OPEN and BACK: `if not menu_scan_done.is_set():`
Nav_MenuRead ==
    /\ nav_pc = "menu_read"
    /\ nav_pc' = IF menu_scan_done THEN "grid_read" ELSE "menu_ack_clear"
    /\ UNCHANGED <<tui_cwd, nav_pos, frames, nav_inputs, lists, _grid_list,
                   next_grid, next_menu, grid_active, grid_acknowledge,
                   grid_scan_done, navMenuEvents, navGrid, navMenu, NavOthers>>

\* menu_acknowledge.clear()
Nav_MenuAckClear ==
    /\ nav_pc = "menu_ack_clear"
    /\ menu_acknowledge' = FALSE
    /\ nav_pc' = "menu_change_set"
    /\ UNCHANGED <<tui_cwd, nav_pos, frames, nav_inputs, lists, _grid_list,
                   next_grid, next_menu, grid_active, grid_acknowledge,
                   grid_scan_done, menu_change, menu_scan_done, navGrid,
                   navMenu, NavOthers>>

\* menu_change.set()
Nav_MenuChangeSet ==
    /\ nav_pc = "menu_change_set"
    /\ menu_change' = TRUE
    /\ nav_pc' = "menu_wait"
    /\ UNCHANGED <<tui_cwd, nav_pos, frames, nav_inputs, lists, _grid_list,
                   next_grid, next_menu, grid_active, grid_acknowledge,
                   grid_scan_done, menu_acknowledge, menu_scan_done, navGrid,
                   navMenu, NavOthers>>

\* menu_acknowledge.wait()
Nav_MenuWait ==
    /\ nav_pc = "menu_wait"
    /\ menu_acknowledge
    /\ nav_pc' = "menu_change_clear"
    /\ UNCHANGED <<tui_cwd, nav_pos, frames, nav_inputs, lists, _grid_list,
                   next_grid, next_menu, grid_active, grid_acknowledge,
                   grid_scan_done, navMenuEvents, navGrid, navMenu, NavOthers>>

\* menu_change.clear()
Nav_MenuChangeClear ==
    /\ nav_pc = "menu_change_clear"
    /\ menu_change' = FALSE
    /\ nav_pc' = "grid_read"
    /\ UNCHANGED <<tui_cwd, nav_pos, frames, nav_inputs, lists, _grid_list,
                   next_grid, next_menu, grid_active, grid_acknowledge,
                   grid_scan_done, menu_acknowledge, menu_scan_done, navGrid,
                   navMenu, NavOthers>>

\* display_images, OPEN: `if not grid_scan_done.is_set():`; BACK:
\* `if grid_active.is_set() and not grid_scan_done.is_set():`
Nav_GridRead ==
    /\ nav_pc = "grid_read"
    /\ nav_pc' = IF (nav_pos = OPEN \/ grid_active) /\ ~grid_scan_done
                 THEN "grid_ack_clear" ELSE "leave"
    /\ UNCHANGED <<tui_cwd, nav_pos, frames, nav_inputs, lists, _grid_list,
                   next_grid, next_menu, grid_active, grid_acknowledge,
                   grid_scan_done, navMenuEvents, navGrid, navMenu, NavOthers>>

\* grid_acknowledge.clear()
Nav_GridAckClear ==
    /\ nav_pc = "grid_ack_clear"
    /\ grid_acknowledge' = FALSE
    /\ nav_pc' = "grid_active_clear"
    /\ UNCHANGED <<tui_cwd, nav_pos, frames, nav_inputs, lists, _grid_list,
                   next_grid, next_menu, grid_active, grid_scan_done,
                   navMenuEvents, navGrid, navMenu, NavOthers>>

\* grid_active.clear()
Nav_GridActiveClear ==
    /\ nav_pc = "grid_active_clear"
    /\ grid_active' = FALSE
    /\ nav_pc' = "grid_wait"
    /\ UNCHANGED <<tui_cwd, nav_pos, frames, nav_inputs, lists, _grid_list,
                   next_grid, next_menu, grid_acknowledge, grid_scan_done,
                   navMenuEvents, navGrid, navMenu, NavOthers>>

\* grid_acknowledge.wait()
Nav_GridWait ==
    /\ nav_pc = "grid_wait"
    /\ grid_acknowledge
    /\ nav_pc' = "leave"
    /\ UNCHANGED <<tui_cwd, nav_pos, frames, nav_inputs, lists, _grid_list,
                   next_grid, next_menu, grid_active, grid_acknowledge,
                   grid_scan_done, navMenuEvents, navGrid, navMenu, NavOthers>>

\* display_images, OPEN: menu_is_complete = menu_scan_done.is_set(), then
\* the call display_images(entry, _grid_list, contents[entry], prev_dir).
Nav_Open ==
    /\ nav_pc = "leave"
    /\ nav_pos = OPEN
    /\ frames' = Append(SetFrame("menu_is_complete", menu_scan_done),
                        Frame(ItemsOf(ThisFrame)[ThisFrame.prev_pos + 1].name,
                              _grid_list, FALSE, tui_cwd))
    /\ nav_pc' = "enter"
    /\ UNCHANGED <<tui_cwd, nav_pos, nav_inputs, lists, _grid_list, next_grid,
                   next_menu, grid_active, grid_acknowledge, grid_scan_done,
                   navMenuEvents, navGrid, navMenu, NavOthers>>

\* del items[pos]
DelItem(items, pos) ==
    [i \in 1..(Len(items) - 1) |-> IF i < pos + 1 THEN items[i] ELSE items[i + 1]]
Min(a, b) == IF a < b THEN a ELSE b

\* display_images, BACK: break, os.chdir(prev_dir) and
\* `return menu_scan_done.is_set() and not items`; in the caller
\* menu_scan_done is restored and the entry of an empty directory removed.
Nav_Return ==
    /\ nav_pc = "leave"
    /\ nav_pos = BACK
    /\ LET empty == menu_scan_done /\ ItemsOf(ThisFrame) = <<>>
           caller == frames[Len(frames) - 1]
           items == lists[caller.items]
       IN  /\ tui_cwd' = ThisFrame.prev_dir
           /\ frames' = SubSeq(frames, 1, Len(frames) - 1)
           /\ menu_scan_done' = caller.menu_is_complete
           /\ IF empty
              THEN /\ lists' = [lists EXCEPT ![caller.items] =
                                    DelItem(items, caller.prev_pos)]
                   /\ nav_pos' = Min(caller.prev_pos, Len(items) - 2)
              ELSE /\ nav_pos' = caller.prev_pos
                   /\ UNCHANGED lists
    /\ nav_pc' = "put_menu"
    /\ UNCHANGED <<nav_inputs, _grid_list, next_grid, next_menu, grid_active,
                   grid_acknowledge, grid_scan_done, menu_acknowledge,
                   menu_change, navGrid, navMenu, NavOthers>>

\* scan_dir_grid: dir, contents = next_grid.get()
GS_Get ==
    /\ gs_pc = "get"
    /\ next_grid # <<>>
    /\ gs_dir' = Head(next_grid)
    /\ next_grid' = <<>>
    /\ gs_pc' = "list"
    /\ UNCHANGED <<tui_cwd, navMain, lists, _grid_list, next_menu, grid_active,
                   grid_acknowledge, grid_scan_done, navMenuEvents, grid_list,
                   gs_entries, gs_cwd, navMenu, NavOthers>>

\* scan_dir_grid: grid_list = _grid_list
GS_List ==
    /\ gs_pc = "list"
    /\ grid_list' = _grid_list
    /\ gs_pc' = "ack"
    /\ UNCHANGED <<tui_cwd, navMain, lists, _grid_list, next_grid, next_menu,
                   grid_active, grid_acknowledge, grid_scan_done, navMenuEvents,
                   gs_dir, gs_entries, gs_cwd, navMenu, NavOthers>>

\* scan_dir_grid: grid_contents.clear(); grid_acknowledge.set()
GS_Ack ==
    /\ gs_pc = "ack"
    /\ grid_acknowledge' = TRUE
    /\ gs_pc' = "done_clear"
    /\ UNCHANGED <<tui_cwd, navMain, lists, _grid_list, next_grid, next_menu,
                   grid_active, grid_scan_done, navMenuEvents, gs_dir,
                   grid_list, gs_entries, gs_cwd, navMenu, NavOthers>>

\* scan_dir_grid: grid_scan_done.clear()
GS_DoneClear ==
    /\ gs_pc = "done_clear"
    /\ grid_scan_done' = FALSE
    /\ gs_pc' = "scandir"
    /\ UNCHANGED <<tui_cwd, navMain, lists, _grid_list, next_grid, next_menu,
                   grid_active, grid_acknowledge, navMenuEvents, gs_dir,
                   grid_list, gs_entries, gs_cwd, navMenu, NavOthers>>

\* scan_dir: _entries = sorted(os.scandir(dir), ...), dir being taken from
\* the working directory of that moment; FileNotFoundError ends the thread.
GS_Scandir ==
    /\ gs_pc = "scandir"
    /\ IF Child(tui_cwd, gs_dir) = NoDir
       THEN /\ gs_pc' = "raised"
            /\ UNCHANGED <<gs_entries, gs_cwd>>
       ELSE /\ gs_entries' = Listing(Child(tui_cwd, gs_dir))
            /\ gs_cwd' = tui_cwd
            /\ gs_pc' = "next"
    /\ UNCHANGED <<tui_cwd, navMain, lists, _grid_list, next_grid, next_menu,
                   grid_active, grid_acknowledge, grid_scan_done, navMenuEvents,
                   gs_dir, grid_list, navMenu, NavOthers>>

\* scan_dir_entry: a directory of `contents` is a DIR; a file is an IMAGE if
\* PIL.Image.open(abspath(entry)) opens it, which takes the working
\* directory to be the one of os.scandir.
IsListed(entry, scandir_cwd) == entry.is_dir \/ tui_cwd = scandir_cwd

\* scan_dir_grid: the next (kind, item) of scan_dir; an IMAGE or a DIR is
\* appended to grid_list (AttributeError if that is None).
GS_Next ==
    /\ gs_pc = "next"
    /\ IF gs_entries = <<>>
       THEN /\ gs_pc' = "done_set"
            /\ UNCHANGED <<gs_entries, lists>>
       ELSE IF ~IsListed(Head(gs_entries), gs_cwd)
       THEN /\ gs_entries' = Tail(gs_entries)
            /\ gs_pc' = "check_next"
            /\ UNCHANGED lists
       ELSE IF grid_list = NoList
       THEN /\ gs_pc' = "raised"
            /\ UNCHANGED <<gs_entries, lists>>
       ELSE /\ lists' = [lists EXCEPT ![grid_list] = Append(@, Head(gs_entries))]
            /\ gs_entries' = Tail(gs_entries)
            /\ gs_pc' = "check_next"
    /\ UNCHANGED <<tui_cwd, navMain, _grid_list, next_grid, next_menu,
                   grid_active, grid_acknowledge, grid_scan_done, navMenuEvents,
                   gs_dir, grid_list, gs_cwd, navMenu, NavOthers>>

\* scan_dir_grid: `if not next_grid.empty(): break`
GS_CheckNext ==
    /\ gs_pc = "check_next"
    /\ gs_pc' = IF next_grid # <<>> THEN "get" ELSE "check_active"
    /\ UNCHANGED <<tui_cwd, navMain, lists, _grid_list, next_grid, next_menu,
                   grid_active, grid_acknowledge, grid_scan_done, navMenuEvents,
                   gs_dir, grid_list, gs_entries, gs_cwd, navMenu, NavOthers>>

\* scan_dir_grid: `if not grid_active.is_set():`, in the loop and after it
GS_CheckActive ==
    /\ gs_pc \in {"check_active", "done_check"}
    /\ gs_pc' = IF ~grid_active THEN "ack_" \o gs_pc
                ELSE IF gs_pc = "check_active" THEN "next" ELSE "get"
    /\ UNCHANGED <<tui_cwd, navMain, lists, _grid_list, next_grid, next_menu,
                   grid_active, grid_acknowledge, grid_scan_done, navMenuEvents,
                   gs_dir, grid_list, gs_entries, gs_cwd, navMenu, NavOthers>>

\* scan_dir_grid: grid_acknowledge.set() of a halted scan (with `break`) and
\* of a finished one
GS_AckHalt ==
    /\ gs_pc \in {"ack_check_active", "ack_done_check"}
    /\ grid_acknowledge' = TRUE
    /\ gs_pc' = "get"
    /\ UNCHANGED <<tui_cwd, navMain, lists, _grid_list, next_grid, next_menu,
                   grid_active, grid_scan_done, navMenuEvents, gs_dir,
                   grid_list, gs_entries, gs_cwd, navMenu, NavOthers>>

\* scan_dir_grid, the `else` of the loop: grid_scan_done.set()
GS_DoneSet ==
    /\ gs_pc = "done_set"
    /\ grid_scan_done' = TRUE
    /\ gs_pc' = "done_check"
    /\ UNCHANGED <<tui_cwd, navMain, lists, _grid_list, next_grid, next_menu,
                   grid_active, grid_acknowledge, navMenuEvents, gs_dir,
                   grid_list, gs_entries, gs_cwd, navMenu, NavOthers>>

\* scan_dir_menu: items, contents, menu_is_complete = next_menu.get(), and
\* `continue` for a complete menu
MS_Get ==
    /\ ms_pc = "get"
    /\ next_menu # <<>>
    /\ next_menu' = <<>>
    /\ IF Head(next_menu).menu_is_complete
       THEN UNCHANGED <<ms_pc, ms_items>>
       ELSE /\ ms_items' = Head(next_menu).items
            /\ ms_pc' = "scandir"
    /\ UNCHANGED <<tui_cwd, navMain, lists, _grid_list, next_grid, grid_active,
                   grid_acknowledge, grid_scan_done, navMenuEvents, ms_entries,
                   ms_cwd, navGrid, NavOthers>>

\* scan_dir: the entries that follow the one named last_entry, or all of
\* them if none has that name.
RECURSIVE After(_, _)
After(entries, last_entry) ==
    IF entries = <<>> THEN <<>>
    ELSE IF Head(entries).name = last_entry THEN Tail(entries)
    ELSE After(Tail(entries), last_entry)
Resumed(entries, last_entry) ==
    IF \E i \in DOMAIN entries : entries[i].name = last_entry
    THEN After(entries, last_entry)
    ELSE entries

\* scan_dir_menu: scan_dir(".", contents, items[-1][0] if items else None)
\* up to its first entry.
MS_Scandir ==
    /\ ms_pc = "scandir"
    /\ ms_entries' = IF lists[ms_items] = <<>> THEN Listing(tui_cwd)
                     ELSE Resumed(Listing(tui_cwd), Last(lists[ms_items]).name)
    /\ ms_cwd' = tui_cwd
    /\ ms_pc' = "next"
    /\ UNCHANGED <<tui_cwd, navMain, lists, _grid_list, next_grid, next_menu,
                   grid_active, grid_acknowledge, grid_scan_done, navMenuEvents,
                   ms_items, navGrid, NavOthers>>

\* scan_dir_menu: the next (kind, item) of scan_dir; an IMAGE or a DIR is
\* appended to items.
MS_Next ==
    /\ ms_pc = "next"
    /\ IF ms_entries = <<>>
       THEN /\ ms_pc' = "done_set"
            /\ UNCHANGED <<ms_entries, lists>>
       ELSE /\ lists' = IF IsListed(Head(ms_entries), ms_cwd)
                        THEN [lists EXCEPT ![ms_items] = Append(@, Head(ms_entries))]
                        ELSE lists
            /\ ms_entries' = Tail(ms_entries)
            /\ ms_pc' = "check_change"
    /\ UNCHANGED <<tui_cwd, navMain, _grid_list, next_grid, next_menu,
                   grid_active, grid_acknowledge, grid_scan_done, navMenuEvents,
                   ms_items, ms_cwd, navGrid, NavOthers>>

\* scan_dir_menu: `if menu_change.is_set():`, in the loop and after it
MS_CheckChange ==
    /\ ms_pc \in {"check_change", "done_check"}
    /\ ms_pc' = IF menu_change THEN "ack_" \o ms_pc
                ELSE IF ms_pc = "check_change" THEN "next" ELSE "get"
    /\ UNCHANGED <<tui_cwd, navMain, lists, _grid_list, next_grid, next_menu,
                   grid_active, grid_acknowledge, grid_scan_done, navMenuEvents,
                   ms_items, ms_entries, ms_cwd, navGrid, NavOthers>>

\* scan_dir_menu: menu_acknowledge.set() of a halted scan (with `break`) and
\* of a finished one
MS_AckHalt ==
    /\ ms_pc \in {"ack_check_change", "ack_done_check"}
    /\ menu_acknowledge' = TRUE
    /\ ms_pc' = "get"
    /\ UNCHANGED <<tui_cwd, navMain, lists, _grid_list, next_grid, next_menu,
                   grid_active, grid_acknowledge, grid_scan_done, menu_change,
                   menu_scan_done, ms_items, ms_entries, ms_cwd, navGrid,
                   NavOthers>>

\* scan_dir_menu, the `else` of the loop: menu_scan_done.set()
MS_DoneSet ==
    /\ ms_pc = "done_set"
    /\ menu_scan_done' = TRUE
    /\ ms_pc' = "done_check"
    /\ UNCHANGED <<tui_cwd, navMain, lists, _grid_list, next_grid, next_menu,
                   grid_active, grid_acknowledge, grid_scan_done,
                   menu_acknowledge, menu_change, ms_items, ms_entries, ms_cwd,
                   navGrid, NavOthers>>

DisplayImages ==
    \/ Nav_Enter
    \/ Nav_PutMenu
    \/ Nav_Dispatch
    \/ Nav_SelActive
    \/ Nav_SelPut
    \/ Nav_SelList
    \/ Nav_SelWait
    \/ \E pos \in {OPEN, BACK} \cup (-1..MaxMenuPos) : Nav_Send(pos)
    \/ Nav_MenuRead
    \/ Nav_MenuAckClear
    \/ Nav_MenuChangeSet
    \/ Nav_MenuWait
    \/ Nav_MenuChangeClear
    \/ Nav_GridRead
    \/ Nav_GridAckClear
    \/ Nav_GridActiveClear
    \/ Nav_GridWait
    \/ Nav_Open
    \/ Nav_Return
GridScanner ==
    \/ GS_Get
    \/ GS_List
    \/ GS_Ack
    \/ GS_DoneClear
    \/ GS_Scandir
    \/ GS_Next
    \/ GS_CheckNext
    \/ GS_CheckActive
    \/ GS_AckHalt
    \/ GS_DoneSet
MenuScanner ==
    \/ MS_Get
    \/ MS_Scandir
    \/ MS_Next
    \/ MS_CheckChange
    \/ MS_AckHalt
    \/ MS_DoneSet

\* tui.init: the scanners are started, then next(main.displayer) makes the
\* call display_images(".", images, contents, top_level=True).
NavInit ==
    /\ tui_cwd = "T"
    /\ nav_pc = "enter"
    /\ nav_pos = NoPos
    /\ frames = <<Frame(".", TopList, TRUE, "T")>>
    /\ nav_inputs = 0
    /\ lists = <<Listing("T")>>
    /\ _grid_list = NoList
    /\ next_grid = <<>>
    /\ next_menu = <<>>
    /\ grid_acknowledge = FALSE
    /\ grid_scan_done = FALSE
    /\ menu_acknowledge = FALSE
    /\ menu_change = FALSE
    /\ menu_scan_done = FALSE
    /\ gs_pc = "get"
    /\ gs_dir = "."
    /\ grid_list = NoList
    /\ gs_entries = <<>>
    /\ gs_cwd = "T"
    /\ ms_pc = "get"
    /\ ms_items = NoList
    /\ ms_entries = <<>>
    /\ ms_cwd = "T"

\* ------------------------------------------------------ the content trees
\* cli.update_contents, as process_result calls it for the result of a
\* checker (cli.py:381-384).  A content tree is a dict: the key "/" is mapped
\* to True (cli.py:231), any other key, the name of a sub-directory, to the
\* content tree of that sub-directory.  For a source given on the command
\* line `dir` is "" and `contents` is the dict of all sources, which is its
\* own item "" (cli.py:424); that item is left out here.

MergeOthers == <<pipelineVars, scanVars, parVars, sessVars, rwVars, imVars,
                 sortVars, navVars, animVars, confVars, lockVars>>

\* str.split(os.sep)
RECURSIVE Split(_)
Split(s) ==
    IF \A i \in DOMAIN s : s[i] # "/" THEN <<s>>
    ELSE LET i == CHOOSE i \in DOMAIN s :
                      s[i] = "/" /\ \A j \in 1..(i - 1) : s[j] # "/"
         IN  <<SubSeq(s, 1, i - 1)>> \o Split(SubSeq(s, i + 1, Len(s)))

\* update_contents: subdir[len(dir) + 1 :].split(os.sep) if dir else [subdir]
BranchPath(dir, subdir) ==
    IF dir # <<>> THEN Split(SubSeq(subdir, Len(dir) + 2, Len(subdir)))
    ELSE <<subdir>>

\* dict.update in the place of update_dict
update_dict_Overwriting(base, update) ==
    [key \in (DOMAIN base) \cup (DOMAIN update) |->
        IF key \in DOMAIN update THEN update[key] ELSE base[key]]

\* update_contents.update_dict: `base` after the call
RECURSIVE update_dict(_, _)
update_dict(base, update) ==
    [key \in (DOMAIN base) \cup (DOMAIN update) |->
        IF key \notin DOMAIN update THEN base[key]
        ELSE IF key \in DOMAIN base /\ key # Sep
        THEN update_dict(base[key], update[key])
        ELSE update[key]]

\* update_contents, from `path_iter = iter(path)` on: `contents` after.  The
\* first loop goes down the branches there are and makes the first one that
\* is missing, the second loop makes the branches below a new one.
RECURSIVE Place(_, _, _, _)
Place(tree, path, target, subcontents) ==
    IF path # <<>>
    THEN DictSet(tree, Head(path),
                 Place(IF Head(path) \in DOMAIN tree THEN tree[Head(path)]
                       ELSE EmptyDict,
                       Tail(path), target, subcontents))
    ELSE IF target \in DOMAIN tree
    THEN DictSet(tree, target, update_dict(tree[target], subcontents))
    ELSE DictSet(tree, target, subcontents)

\* update_contents(dir, contents, subdir, subcontents): `contents` after
update_contents(dir, tree, subdir, subcontents) ==
    LET path == BranchPath(dir, subdir)
    IN  Place(tree, SubSeq(path, 1, Len(path) - 1), Last(path), subcontents)

\* The names of the sub-directories of the model.
DirNames == {<<"b">>, <<"c">>}

\* A dict with the sub-directories `children`, and with "/" if has_images.
ContentTree(has_images, children) ==
    [key \in (DOMAIN children) \cup (IF has_images THEN {Sep} ELSE {}) |->
        IF key = Sep THEN TRUE ELSE children[key]]

\* The results of check_dir that process_result merges: a result is not
\* empty and has no empty result in it (cli.py:225-235, 381).
RECURSIVE Results(_)
Results(depth) ==
    IF depth = 0 THEN {ContentTree(TRUE, EmptyDict)}
    ELSE {ContentTree(has_images, children) :
              has_images \in BOOLEAN,
              children \in UNION {[names -> Results(depth - 1)] :
                                      names \in (SUBSET DirNames) \ {{}}}}
         \cup {ContentTree(TRUE, EmptyDict)}

\* The directories below dir that a checker can be given: dir/x and dir/x/y.
RECURSIVE SubDirs(_, _)
SubDirs(dir, depth) ==
    IF depth = 0 THEN {}
    ELSE {Join(dir, name) : name \in DirNames}
         \cup UNION {SubDirs(Join(dir, name), depth - 1) : name \in DirNames}

\* The values of subdir in the calls for one value of dir.
MergedSubDirs(dir) ==
    IF dir = <<>> THEN {SourceDir, DirZ} ELSE SubDirs(dir, MaxSubDirDepth)

\* process_result: update_contents(source, contents[source], subdir, result)
UpdateContents(subdir, subcontents) ==
    /\ n_updates < MaxUpdates
    /\ source_contents' =
           update_contents(source_dir, source_contents, subdir, subcontents)
    /\ last_subdir' = subdir
    /\ last_subcontents' = subcontents
    /\ n_updates' = n_updates + 1
    /\ UNCHANGED <<source_dir, MergeOthers>>

\* process_result: `contents[source] = {}`, before the first result of a
\* source is merged (cli.py:382-383).
MergeInit(dirs) ==
    /\ source_dir \in dirs
    /\ source_contents = EmptyDict
    /\ last_subdir = <<>>
    /\ last_subcontents = EmptyDict
    /\ n_updates = 0

\* render.py:937: thumbnail_render_lock = Lock(), held by no thread.
NoThread == "none"
LockInit ==
    /\ thumbnail_render_lock = NoThread
    /\ other_thumbnail = NoThumb

\* ------------------------------------------------------------ the session
\* __main__.main: cli.main() in a try statement whose three exits each call
\* finish_loading(), finish_multi_logging() and cleanup_temp_dir().  The
\* GridThumbnailer of the TUI is a daemon thread (or process) that makes files
\* in TEMP_DIR/thumbnails until it is told to quit or the process ends.

SessOthers == <<pipelineVars, scanVars, parVars, rwVars, imVars, sortVars, navVars,
                animVars, confVars, mergeVars, lockVars>>

\* cli.main ends: by a return, or by an exception that __main__.main catches.
ExitWays == {"return", "KeyboardInterrupt", "Exception"}

\* __main__.main: the except and else clauses all start with finish_loading().
CliEnds(way) ==
    /\ exit_way' = way
    /\ main_pc' = "finish_loading"

\* cli.main up to init_log(): init_notify starts LoadingIndicator unless
\* --quiet, init_log starts MultiLogger when logging.MULTI.
Cli_Init(quiet, multi) ==
    /\ main_pc = "cli_init"
    /\ loading_indicator' = IF quiet THEN "none" ELSE "running"
    /\ multi_logger' = IF multi THEN "running" ELSE "none"
    /\ main_pc' = "cli_mkdtemp"
    /\ UNCHANGED <<exit_way, TEMP_DIR, temp_dir, thumbnail_files_n,
                   grid_thumbnailer, SessOthers>>

\* cli.main: __main__.TEMP_DIR = mkdtemp(prefix="termvisage-"); an OSError is
\* logged and leaves TEMP_DIR None.
Cli_Mkdtemp(ok) ==
    /\ main_pc = "cli_mkdtemp"
    /\ TEMP_DIR' = IF ok THEN "/tmp/termvisage-1" ELSE NoSource
    /\ temp_dir' = ok
    /\ main_pc' = "cli_sources"
    /\ UNCHANGED <<exit_way, thumbnail_files_n, loading_indicator, multi_logger,
                   grid_thumbnailer, SessOthers>>

\* cli.main: the sources are processed and tui.init() starts the TUI;
\* main.THUMBNAIL = args.thumbnail and TEMP_DIR, and GridThumbnailManager
\* starts GridThumbnailer, whose mkdir() makes TEMP_DIR/thumbnails.
Cli_TuiInit(thumbnail) ==
    /\ main_pc = "cli_sources"
    /\ grid_thumbnailer' = IF thumbnail /\ TEMP_DIR # NoSource
                           THEN "running" ELSE "none"
    /\ main_pc' = "cli_tui"
    /\ UNCHANGED <<exit_way, TEMP_DIR, temp_dir, thumbnail_files_n,
                   loading_indicator, multi_logger, SessOthers>>

\* cli.main returns before the TUI: INVALID_ARG, FAILURE, NO_VALID_SOURCE, or
\* SUCCESS without a TUI.
Cli_Return ==
    /\ main_pc \in {"cli_mkdtemp", "cli_sources"}
    /\ CliEnds("return")
    /\ UNCHANGED <<TEMP_DIR, temp_dir, thumbnail_files_n, loading_indicator,
                   multi_logger, grid_thumbnailer, SessOthers>>

\* tui.init: main.loop.run() returns and the managers are joined
\* (grid_thumbnail_manager.join(), whose `finally` joins the generator); then
\* cli.main returns.
Cli_TuiReturn ==
    /\ main_pc = "cli_tui"
    /\ grid_thumbnailer' = IF grid_thumbnailer = "running"
                           THEN "joined" ELSE grid_thumbnailer
    /\ CliEnds("return")
    /\ UNCHANGED <<TEMP_DIR, temp_dir, thumbnail_files_n, loading_indicator,
                   multi_logger, SessOthers>>

\* KeyboardInterrupt or another exception leaves cli.main: tui.init joins the
\* image and animation managers only (and not even those on
\* KeyboardInterrupt), so GridThumbnailer is as it was.
Cli_Raise(way) ==
    /\ main_pc \in {"cli_mkdtemp", "cli_sources", "cli_tui"}
    /\ way # "return"
    /\ CliEnds(way)
    /\ UNCHANGED <<TEMP_DIR, temp_dir, thumbnail_files_n, loading_indicator,
                   multi_logger, grid_thumbnailer, SessOthers>>

\* generate_grid_thumbnails: mkstemp("", f"{img_hash}-", THUMBNAIL_DIR) makes
\* a file; it fails (and reports a null thumbnail) when the directory is gone.
Thumbnailer_Mkstemp ==
    /\ grid_thumbnailer = "running"
    /\ main_pc # "returned"
    /\ temp_dir
    /\ thumbnail_files_n < MaxThumbnailFiles
    /\ thumbnail_files_n' = thumbnail_files_n + 1
    /\ UNCHANGED <<main_pc, exit_way, TEMP_DIR, temp_dir, loading_indicator,
                   multi_logger, grid_thumbnailer, SessOthers>>

\* finish_loading: with notification initialized and not QUIET, the loading
\* phases are ended and loading_indicator.join() returns.
Finish_Loading ==
    /\ main_pc = "finish_loading"
    /\ loading_indicator' = IF loading_indicator = "running"
                            THEN "joined" ELSE loading_indicator
    /\ main_pc' = "finish_multi_logging"
    /\ UNCHANGED <<exit_way, TEMP_DIR, temp_dir, thumbnail_files_n,
                   multi_logger, grid_thumbnailer, SessOthers>>

\* finish_multi_logging: with logging.MULTI, the end of logs is put on
\* log_queue and multi_logger.join() returns.
Finish_MultiLogging ==
    /\ main_pc = "finish_multi_logging"
    /\ multi_logger' = IF multi_logger = "running" THEN "joined" ELSE multi_logger
    /\ main_pc' = "cleanup_temp_dir"
    /\ UNCHANGED <<exit_way, TEMP_DIR, temp_dir, thumbnail_files_n,
                   loading_indicator, grid_thumbnailer, SessOthers>>

\* cleanup_temp_dir: `if not TEMP_DIR: return`; otherwise rmtree(TEMP_DIR)
\* lists the thumbnails directory and unlinks the entries it listed.
Rmtree_Unlink ==
    /\ main_pc = "cleanup_temp_dir"
    /\ IF TEMP_DIR = NoSource
       THEN main_pc' = "finally" /\ UNCHANGED thumbnail_files_n
       ELSE main_pc' = "rmdir" /\ thumbnail_files_n' = 0
    /\ UNCHANGED <<exit_way, TEMP_DIR, temp_dir, loading_indicator,
                   multi_logger, grid_thumbnailer, SessOthers>>

\* cleanup_temp_dir: rmtree's rmdir of the directories; with an entry made
\* since the listing it raises OSError (directory not empty), which is logged.
Rmtree_Rmdir ==
    /\ main_pc = "rmdir"
    /\ temp_dir' = (thumbnail_files_n # 0)
    /\ main_pc' = "finally"
    /\ UNCHANGED <<exit_way, TEMP_DIR, thumbnail_files_n, loading_indicator,
                   multi_logger, grid_thumbnailer, SessOthers>>

\* __main__.main: the session's end is logged, the `finally` restores the
\* window title, and main returns the exit code.
Main_Return ==
    /\ main_pc = "finally"
    /\ main_pc' = "returned"
    /\ UNCHANGED <<exit_way, TEMP_DIR, temp_dir, thumbnail_files_n,
                   loading_indicator, multi_logger, grid_thumbnailer, SessOthers>>

CliMain ==
    \/ \E quiet \in BOOLEAN, multi \in BOOLEAN : Cli_Init(quiet, multi)
    \/ \E ok \in BOOLEAN : Cli_Mkdtemp(ok)
    \/ \E thumbnail \in BOOLEAN : Cli_TuiInit(thumbnail)
    \/ Cli_Return
    \/ Cli_TuiReturn
    \/ \E way \in ExitWays : Cli_Raise(way)

Main ==
    \/ Finish_Loading
    \/ Finish_MultiLogging
    \/ Rmtree_Unlink
    \/ Rmtree_Rmdir
    \/ Main_Return

\* __main__.main before cli.main() is called.
SessionInit ==
    /\ main_pc = "cli_init"
    /\ exit_way = "none"
    /\ TEMP_DIR = NoSource
    /\ temp_dir = FALSE
    /\ thumbnail_files_n = 0
    /\ loading_indicator = "none"
    /\ multi_logger = "none"
    /\ grid_thumbnailer = "none"

AuxInit ==
    /\ SessionInit
    /\ RenderInit("grid")
    /\ ImageInit({})
    /\ SortInit
    /\ NavInit
    /\ AnimInit(FALSE)
    /\ MergeInit({SourceDir})
    /\ LockInit

\* ------------------------------------------------------------ specification

\* The state after tui.init(): the module state of render.py as it is defined,
\* the managers at the top of their loops.  Any batch number is the batch number
\* of a quiet pipeline; the model starts at 0, as the program does, and just
\* before the wrap-around.
InitialBatchNos == {0, BatchModulus - 1}

\* Events as threading.Event() makes them: cleared.
InSyncAtInit_Cleared == FALSE

\* render.py:962-963: both managers are taken to be in sync at init,
\* grid_renderer_in_sync.set() and grid_thumbnailer_in_sync.set().
InSyncAtInit == TRUE

GridState(generator) ==
    /\ ui_pc = "idle"
    /\ ui_src = NoSource
    /\ grid_active = FALSE
    /\ resyncs = 0
    /\ requests = 0
    /\ grid_renderer_in_sync = InSyncAtInit
    /\ grid_thumbnailer_in_sync = InSyncAtInit
    /\ grid_render_queue = <<>>
    /\ grid_thumbnail_queue = <<>>
    /\ thumbnail_sources = <<>>
    /\ thumbnail_cache = EmptyDict
    /\ extra_thumbnail_cache = EmptyDict
    /\ thumbnails_being_rendered = EmptyDict
    /\ grid_cache = EmptyDict
    /\ grm_pc = "top"
    /\ grid_batch_no \in InitialBatchNos
    /\ grid_render_in = <<>>
    /\ grid_render_out = <<>>
    /\ worker_job = NoJob
    /\ gtm_pc = "top"
    /\ thumbnail_in = <<>>
    /\ thumbnail_out = <<>>
    /\ not_generating = TRUE
    /\ thumbnails_to_be_deleted = {}
    /\ gen_pc = generator
    /\ gen_job = NoThumbJob
    /\ deduplicated_to_be_deleted = {}
    /\ thumbnail_files = EmptyDict
    /\ n_thumbnails = 0
    /\ batch0 = grid_batch_no
    /\ grm_resyncs = 0
    /\ gtm_resyncs = 0
    /\ enqueued = [x \in Sources |-> 0]
    /\ processed = {}

\* tui/__init__.py:80: the cache's maximum is the config option.
GridStart(generator) ==
    /\ GridState(generator)
    /\ THUMBNAIL_CACHE_SIZE = thumbnail_cache_option

\* The grid pipeline once GridThumbnailer has made its directory and waits for
\* its first source.
GridInit == GridStart("get")

\* The checker before it takes the source off dir_queue.
CheckerInit ==
    /\ scan_pc = "start"
    /\ cwd = Sep
    /\ _depth = 0
    /\ _links = <<>>
    /\ stack = <<>>
    /\ scan_result = None
    /\ entered = <<>>

\* The parallel scan when main has started CheckManager (cli.py:872-873) and
\* CheckManager the checkers (cli.py:391-420).
ParallelInit ==
    /\ to_put = DirSources
    /\ sources_finished = FALSE
    /\ dir_queue = <<>>
    /\ progress_queue = <<>>
    /\ content_queue = <<>>
    /\ progress_updated = FALSE
    /\ content_updated = FALSE
    /\ free_checkers = 0
    /\ chk_pc = [n \in CheckerNos |-> "get"]
    /\ chk_job = [n \in CheckerNos |-> EndOfJobs]
    /\ chk_result = [n \in CheckerNos |-> {}]
    /\ chk_alive = [n \in CheckerNos |-> TRUE]
    /\ mgr_pc = "start"
    /\ mgr_n = 0
    /\ checks_in_progress = [n \in CheckerNos |-> None]
    /\ contents = {}
    /\ dir_images = {}

\* The tree of the scenario `/a/img.png, /a/b -> /a, /a/c/img2.png`.
ScenarioTree ==
    [dirs |-> {SourceDir, DirC, DirZ}, images |-> {SourceDir, DirC},
     texts |-> {},
     links |-> {[dir |-> SourceDir, name |-> <<"b">>, target |-> SourceDir]},
     noenter |-> {}, nolist |-> {}]

Init ==
    /\ GridInit
    /\ CheckerInit
    /\ ParallelInit
    /\ AuxInit
    /\ fs = ScenarioTree
    /\ Recursive = TRUE
    /\ MAX_DEPTH = 50

\* The scan of any file system of the model, before the TUI is started.
ScanInit ==
    /\ GridInit
    /\ grid_batch_no = 0
    /\ CheckerInit
    /\ ParallelInit
    /\ AuxInit
    /\ fs \in FileSystems
    /\ Recursive \in BOOLEAN
    /\ MAX_DEPTH \in MaxDepths

MainThread ==
    \/ UIOpenGrid
    \/ UILeaveGrid
    \/ \E s \in Sources, large \in BOOLEAN : UIRenderPut(s, large)
    \/ \E s \in Sources : UIRenderCached(s)
    \/ UIRenderMark
    \/ ResyncClearRenderer
    \/ ResyncClearThumbnailer
    \/ ResyncWaitRenderer
    \/ ResyncWaitThumbnailer
    \/ ResyncPutRenderDelimiter
    \/ ResyncPutThumbnailDelimiter

GridRenderManager ==
    GRM_Top \/ GRM_ClearIn \/ GRM_ClearOut \/ GRM_Purge \/ GRM_Job \/ GRM_Result

GridRenderer == GR_Get \/ GR_Render

GridThumbnailManager ==
    \/ GTM_Top
    \/ GTM_WaitRenderer
    \/ GTM_ClearShared
    \/ GTM_ClearIn
    \/ GTM_WaitGenerator
    \/ GTM_Drain
    \/ GTM_DeleteQueued
    \/ GTM_Purge
    \/ GTM_DeleteDeferred
    \/ GTM_Job
    \/ GTM_Result
    \/ GTM_Forward

GridThumbnailer == GEN_Get \/ GEN_Clear \/ GEN_Make \/ GEN_Fail

Next ==
    \/ MainThread
    \/ GridRenderManager
    \/ GridRenderer
    \/ GridThumbnailManager
    \/ GridThumbnailer

Spec == Init /\ [][Next]_vars

\* The grid of a directory of two large images: MainThread opens the grid,
\* which is the first call of resync_grid_rendering() (main.py display_images),
\* has the cells of /d/a and /d/b rendered, and calls resync_grid_rendering()
\* twice more (keys.py resize), while the managers, the renderer and the
\* thumbnailer run as in Spec.
ResyncSources == {"/d/a", "/d/b"}
ResyncInit == Init /\ grid_batch_no = 0
ResyncMainThread ==
    \/ UIOpenGrid
    \/ \E s \in ResyncSources : UIRenderPut(s, TRUE)
    \/ UIRenderMark
    \/ ResyncClearRendererWithin(MaxResyncCalls)
    \/ ResyncClearThumbnailer
    \/ ResyncWaitRenderer
    \/ ResyncWaitThumbnailer
    \/ ResyncPutRenderDelimiter
    \/ ResyncPutThumbnailDelimiter
ResyncNext ==
    \/ ResyncMainThread
    \/ GridRenderManager
    \/ GridRenderer
    \/ GridThumbnailManager
    \/ GridThumbnailer
ResyncSpec == ResyncInit /\ [][ResyncNext]_vars

\* The scan runs in the main thread, which does nothing else until the scan is
\* over (cli.py:494-513): it takes a step as long as it has one to take.
ScanNext == Checker
ScanSpec == ScanInit /\ [][ScanNext]_vars /\ WF_vars(ScanNext)

\* The file systems of the model in which one directory below the source
\* cannot be entered (os.chdir raises OSError) or cannot be listed (os.scandir
\* raises OSError).
FaultyFileSystems ==
    UNION {{[f EXCEPT !.noenter = {d}], [f EXCEPT !.nolist = {d}]} :
              f \in FileSystems, d \in {DirC, DirZ}}

\* The scan of a file system with a directory that fails.
FaultyScanInit ==
    /\ GridInit
    /\ grid_batch_no = 0
    /\ CheckerInit
    /\ ParallelInit
    /\ AuxInit
    /\ fs \in {f \in FaultyFileSystems : f.noenter \cup f.nolist \subseteq f.dirs}
    /\ Recursive \in BOOLEAN
    /\ MAX_DEPTH \in MaxDepths
FaultyScanSpec == FaultyScanInit /\ [][ScanNext]_vars /\ WF_vars(ScanNext)

\* The parallel scan: main, CheckManager and the checkers run side by side.
ParallelScanInit == Init /\ grid_batch_no = 0
ParallelNext == MainSources \/ CheckManager \/ Checkers
ParallelSpec == ParallelScanInit /\ [][ParallelNext]_vars

\* The grid pipeline from the start of GridThumbnailer (tui/__init__.py:168,
\* render.py:631-647), whose mkdir() may fail.
ThumbDirInit ==
    /\ GridStart("mkdir")
    /\ grid_batch_no = 0
    /\ CheckerInit
    /\ ParallelInit
    /\ AuxInit
    /\ fs = ScenarioTree
    /\ Recursive = TRUE
    /\ MAX_DEPTH = 50
GridThumbnailerStart == GEN_Mkdir \/ GEN_MkdirFail
ThumbDirNext == GridThumbnailerStart \/ Next
ThumbDirSpec == ThumbDirInit /\ [][ThumbDirNext]_vars

\* A session, from the call of cli.main() to the return of __main__.main.
SessionSpecInit == Init /\ grid_batch_no = 0
SessionNext == CliMain \/ Thumbnailer_Mkstemp \/ Main
SessionSpec == SessionSpecInit /\ [][SessionNext]_vars

\* Any of the four render managers with its workers, from the start of the
\* workers to the end of the manager.
RenderSpecInit ==
    /\ GridInit
    /\ grid_batch_no = 0
    /\ CheckerInit
    /\ ParallelInit
    /\ SessionInit
    /\ ImageInit({})
    /\ SortInit
    /\ NavInit
    /\ AnimInit(FALSE)
    /\ MergeInit({SourceDir})
    /\ LockInit
    /\ fs = ScenarioTree
    /\ Recursive = TRUE
    /\ MAX_DEPTH = 50
    /\ \E kind \in ManagerKinds : RenderInit(kind)
RenderNext == RenderManager \/ RenderWorkers
RenderSpec == RenderSpecInit /\ [][RenderNext]_vars

\* The renders of single images, some of which cannot be decoded.
ImageSpecInit ==
    /\ GridInit
    /\ grid_batch_no = 0
    /\ CheckerInit
    /\ ParallelInit
    /\ SessionInit
    /\ RenderInit("grid")
    /\ SortInit
    /\ NavInit
    /\ AnimInit(FALSE)
    /\ MergeInit({SourceDir})
    /\ LockInit
    /\ fs = ScenarioTree
    /\ Recursive = TRUE
    /\ MAX_DEPTH = 50
    /\ \E bad \in SUBSET Widgets : ImageInit(bad)
ImageNext == ImageWidgets \/ ImageRenderManager \/ ImageRenderer
ImageSpec == ImageSpecInit /\ [][ImageNext]_vars

\* The listings of scan_dir.
SortSpecInit == Init /\ grid_batch_no = 0
SortNext ==
    \/ \E entry \in DirEntries : ScanDir_Yield(entry)
    \/ ScanDir_Sorted
SortSpec == SortSpecInit /\ [][SortNext]_vars

\* The navigation of the menu: display_images with the two scanners.
NavSpecInit == Init /\ grid_batch_no = 0
NavNext == DisplayImages \/ GridScanner \/ MenuScanner
NavSpec == NavSpecInit /\ [][NavNext]_vars

\* The animations: AnimRenderManager, FrameRenderer and the widgets, with
\* threads and with processes.
AnimSpecInit ==
    /\ GridInit
    /\ grid_batch_no = 0
    /\ CheckerInit
    /\ ParallelInit
    /\ SessionInit
    /\ RenderInit("anim")
    /\ ImageInit({})
    /\ SortInit
    /\ NavInit
    /\ fs = ScenarioTree
    /\ Recursive = TRUE
    /\ MAX_DEPTH = 50
    /\ \E multi \in BOOLEAN : AnimInit(multi)
    /\ MergeInit({SourceDir})
    /\ LockInit
AnimNext == AnimWidgets \/ AnimRenderManager \/ FrameRenderer
AnimSpec == AnimSpecInit /\ [][AnimNext]_vars

\* ------------------------------------------------ the thumbnail cache alone

\* The sources of a directory larger than the cache.
CacheSources == Sources \cup {"/d/e"}

\* generate_grid_thumbnails makes the thumbnail of a source that is not cached
\* (render.py:742-760 sends only such sources), of any content: a copy of an
\* existing thumbnail of the same bytes if there is one.  GridThumbnailManager
\* takes the result off thumbnail_out (render.py:729-733).
CT_Generate(source, pixels) ==
    /\ gtm_pc = "top"
    /\ thumbnail_out = <<>>
    /\ n_thumbnails < MaxGenerated
    /\ source \notin DOMAIN thumbnail_cache
    /\ LET thumbnail == n_thumbnails + 1
           others == {other \in DOMAIN thumbnail_files :
                         thumbnail_files[other] = pixels}
       IN  /\ n_thumbnails' = thumbnail
           /\ thumbnail_files' = DictSet(thumbnail_files, thumbnail, pixels)
           /\ IF others = {}
              THEN thumbnail_out' = <<ThumbResult(source, thumbnail, NoThumb, 0)>>
              ELSE \E other \in others :
                       thumbnail_out' = <<ThumbResult(source, thumbnail, other, 0)>>
    /\ gtm_pc' = "fwd"
    /\ UNCHANGED <<uiVars, flagVars, queueVars, cacheVars, grid_cache, grmVars,
                   worker_job, thumbnail_in, not_generating, gen_pc, gen_job,
                   deduplicated_to_be_deleted, histVars>>

\* manage_grid_renders: the oldest cell of grid_render_queue is rendered and
\* mark_thumbnail_rendered(source, thumbnail) takes it out of the pipeline
\* (render.py:426-441, 513-529).
CT_Rendered ==
    /\ grid_render_queue # <<>>
    /\ LET job == Head(grid_render_queue) IN
       /\ ~MarkRaises(job.source, job.thumbnail)
       /\ thumbnails_being_rendered' = MarkedBeingRendered(job.source, job.thumbnail)
       /\ extra_thumbnail_cache' = MarkedExtraCache(job.source, job.thumbnail)
    /\ grid_render_queue' = Tail(grid_render_queue)
    /\ UNCHANGED <<uiVars, flagVars, grid_thumbnail_queue, thumbnail_sources,
                   thumbnail_cache, thumbnails_to_be_deleted, grid_cache, grmVars,
                   worker_job, gtmVars, not_generating, genVars, thumbnail_files,
                   histVars>>

\* The cache of any maximum, filled by one thumbnail after the other.
CacheSpecInit ==
    /\ GridState("get")
    /\ THUMBNAIL_CACHE_SIZE \in 1..MaxCacheSize
    /\ grid_batch_no = 0
    /\ CheckerInit
    /\ ParallelInit
    /\ AuxInit
    /\ fs = ScenarioTree
    /\ Recursive = TRUE
    /\ MAX_DEPTH = 50
CacheNext ==
    \/ \E source \in CacheSources, pixels \in 1..MaxPixels : CT_Generate(source, pixels)
    \/ GTM_Forward
    \/ CT_Rendered
CacheSpec == CacheSpecInit /\ [][CacheNext]_vars

\* ------------------------------------- the thumbnail cache, lock by lock
\* cache_thumbnail and mark_thumbnail_rendered statement by statement, as
\* far as thumbnail_render_lock orders them: GridThumbnailManager takes a
\* generated thumbnail, forwards it and caches it (render.py:748-760,
\* 566-626) and deletes what is queued for deletion (716-726), while
\* GridRenderManager takes the cells out of the pipeline (426-441).  No cell
\* is resynchronised.

LockOthers == <<uiVars, flagVars, grid_thumbnail_queue, grid_cache, grmVars,
                worker_job, thumbnail_in, not_generating, genVars, batch0,
                processed, resyncVars, scanVars, parVars, sessVars, rwVars,
                imVars, sortVars, navVars, animVars, confVars, mergeVars>>

\* manage_grid_thumbnails: (source, thumbnail, deduplicated), the item taken
\* from thumbnail_out that is being forwarded and cached
TakenOut == Head(thumbnail_out)

\* thumbnails_being_rendered[thumbnail], read: the defaultdict makes the item
\* of a missing key.
BeingRenderedGet(tbr, thumbnail) ==
    IF thumbnail \in DOMAIN tbr THEN tbr ELSE DictSet(tbr, thumbnail, {})

\* render.py:748-749, after the deferred deletions of the same turn of the
\* loop: thumbnail_out.get()
TL_Generate(source, pixels) ==
    /\ Deletable = {}
    /\ n_thumbnails < MaxLockGenerated
    /\ CT_Generate(source, pixels)

\* render.py:716-726: the deferred deletions, when there are some to make
TL_DeleteDeferred ==
    /\ gtm_pc = "top"
    /\ Deletable # {}
    /\ thumbnail_files' = [t \in (DOMAIN thumbnail_files) \ Deletable
                              |-> thumbnail_files[t]]
    /\ thumbnails_to_be_deleted' = thumbnails_to_be_deleted \ Deletable
    /\ UNCHANGED <<gtm_pc, thumbnail_out, grid_render_queue, thumbnail_sources,
                   thumbnail_cache, extra_thumbnail_cache,
                   thumbnails_being_rendered, lockVars, LockOthers>>

\* render.py:753-757: `with thumbnail_render_lock:
\* thumbnails_being_rendered[thumbnail].add(source)`, then
\* grid_render_queue.put((source, thumbnail))
TL_Forward ==
    /\ gtm_pc = "fwd"
    /\ thumbnail_render_lock = NoThread
    /\ thumbnails_being_rendered' =
           BeingRenderedAdd(thumbnails_being_rendered, TakenOut.thumbnail, TakenOut.source)
    /\ grid_render_queue' =
           Append(grid_render_queue, RenderJob(TakenOut.source, TakenOut.thumbnail, TakenOut.ep))
    /\ gtm_pc' = "evict"
    /\ UNCHANGED <<thumbnail_out, thumbnail_sources, thumbnail_cache,
                   extra_thumbnail_cache, thumbnails_to_be_deleted,
                   thumbnail_files, lockVars, LockOthers>>

\* cache_thumbnail, render.py:568-577: the test for an eviction, the choice
\* of other_thumbnail and `if other_thumbnail in thumbnails_being_rendered:`
TL_EvictTest ==
    /\ gtm_pc = "evict"
    /\ IF TakenOut.deduplicated = NoThumb /\ CacheIsFull(thumbnail_sources)
       THEN LET other == thumbnail_sources[EvictionChoice(thumbnail_sources)].thumbnail
            IN  /\ other_thumbnail' = other
                /\ gtm_pc' = IF other \in DOMAIN thumbnails_being_rendered
                             THEN "evict_later" ELSE "evict_now"
       ELSE /\ gtm_pc' = "link"
            /\ UNCHANGED other_thumbnail
    /\ UNCHANGED <<thumbnail_out, grid_render_queue, thumbnail_sources,
                   thumbnail_cache, extra_thumbnail_cache,
                   thumbnails_being_rendered, thumbnails_to_be_deleted,
                   thumbnail_files, thumbnail_render_lock, LockOthers>>

\* cache_thumbnail, render.py:578-585: with thumbnail_render_lock, the
\* sources of other_thumbnail in the render pipeline go to the extra cache
\* and its linked sources leave the main cache.
TL_EvictLater ==
    /\ gtm_pc = "evict_later"
    /\ thumbnail_render_lock = NoThread
    /\ thumbnail_render_lock' = "GridThumbnailManager"
    /\ thumbnails_being_rendered' =
           BeingRenderedGet(thumbnails_being_rendered, other_thumbnail)
    /\ extra_thumbnail_cache' =
           ExtraCached([CacheState EXCEPT !.tbr = thumbnails_being_rendered'],
                       other_thumbnail)
    /\ thumbnail_cache' =
           Unlink(thumbnail_cache, SourcesOf(thumbnail_sources, other_thumbnail))
    /\ gtm_pc' = "evict_queue"
    /\ UNCHANGED <<thumbnail_out, grid_render_queue, thumbnail_sources,
                   thumbnails_to_be_deleted, thumbnail_files, other_thumbnail,
                   LockOthers>>

\* cache_thumbnail, render.py:585-587, 595: the lock is released,
\* thumbnails_to_be_deleted.add(other_thumbnail) and
\* `del thumbnail_sources[other_thumbnail]`
TL_EvictQueue ==
    /\ gtm_pc = "evict_queue"
    /\ thumbnail_render_lock' = NoThread
    /\ thumbnails_to_be_deleted' = thumbnails_to_be_deleted \cup {other_thumbnail}
    /\ thumbnail_sources' = SourcesDel(thumbnail_sources, other_thumbnail)
    /\ gtm_pc' = "link"
    /\ UNCHANGED <<thumbnail_out, grid_render_queue, thumbnail_cache,
                   extra_thumbnail_cache, thumbnails_being_rendered,
                   thumbnail_files, other_thumbnail, LockOthers>>

\* cache_thumbnail, render.py:588-595: other_thumbnail is not in the render
\* pipeline; its file is deleted and its sources are unlinked.
TL_EvictNow ==
    /\ gtm_pc = "evict_now"
    /\ thumbnail_files' = DictDel(thumbnail_files, other_thumbnail)
    /\ thumbnail_cache' =
           Unlink(thumbnail_cache, SourcesOf(thumbnail_sources, other_thumbnail))
    /\ thumbnail_sources' = SourcesDel(thumbnail_sources, other_thumbnail)
    /\ gtm_pc' = "link"
    /\ UNCHANGED <<thumbnail_out, grid_render_queue, extra_thumbnail_cache,
                   thumbnails_being_rendered, thumbnails_to_be_deleted,
                   lockVars, LockOthers>>

\* cache_thumbnail, render.py:597-608, 625-626: *source* is linked to
\* *thumbnail*; then the sources of *deduplicated* are moved to *thumbnail*
\* in thumbnail_sources, or *thumbnail* gets *source* alone.
TL_Link ==
    /\ gtm_pc = "link"
    /\ thumbnail_cache' = DictSet(thumbnail_cache, TakenOut.source, TakenOut.thumbnail)
    /\ IF DeduplicatedIsCached(thumbnail_sources, TakenOut.deduplicated)
       THEN /\ thumbnail_sources' =
                   SourcesSet(SourcesDel(thumbnail_sources, TakenOut.deduplicated),
                              TakenOut.thumbnail,
                              Append(SourcesOf(thumbnail_sources, TakenOut.deduplicated),
                                     TakenOut.source))
            /\ gtm_pc' = "relink"
            /\ UNCHANGED thumbnail_out
       ELSE /\ thumbnail_sources' =
                   SourcesSet(thumbnail_sources, TakenOut.thumbnail, <<TakenOut.source>>)
            /\ thumbnail_out' = Tail(thumbnail_out)
            /\ gtm_pc' = "top"
    /\ UNCHANGED <<grid_render_queue, extra_thumbnail_cache,
                   thumbnails_being_rendered, thumbnails_to_be_deleted,
                   thumbnail_files, lockVars, LockOthers>>

\* cache_thumbnail: deduplicated_sources, once thumbnail_sources[thumbnail]
\* is (*deduplicated_sources, source)
DeduplicatedSources ==
    LET sources == SourcesOf(thumbnail_sources, TakenOut.thumbnail)
    IN  SubSeq(sources, 1, Len(sources) - 1)

\* cache_thumbnail, render.py:610-621: with thumbnail_render_lock, the
\* sources of *deduplicated* are linked to *thumbnail*; a *deduplicated* in
\* the render pipeline goes to the extra cache and is queued for deletion.
TL_Relink ==
    /\ gtm_pc = "relink"
    /\ thumbnail_render_lock = NoThread
    /\ thumbnail_render_lock' = "GridThumbnailManager"
    /\ thumbnail_cache' =
           [x \in (DOMAIN thumbnail_cache) \cup Range(DeduplicatedSources) |->
               IF x \in Range(DeduplicatedSources) THEN TakenOut.thumbnail
               ELSE thumbnail_cache[x]]
    /\ IF TakenOut.deduplicated \in DOMAIN thumbnails_being_rendered
       THEN /\ extra_thumbnail_cache' = ExtraCached(CacheState, TakenOut.deduplicated)
            /\ thumbnails_to_be_deleted' =
                   thumbnails_to_be_deleted \cup {TakenOut.deduplicated}
            /\ gtm_pc' = "unlock"
       ELSE /\ gtm_pc' = "delete"
            /\ UNCHANGED <<extra_thumbnail_cache, thumbnails_to_be_deleted>>
    /\ UNCHANGED <<thumbnail_out, grid_render_queue, thumbnail_sources,
                   thumbnails_being_rendered, thumbnail_files, other_thumbnail,
                   LockOthers>>

\* cache_thumbnail, render.py:622-624, in the `with thumbnail_render_lock:`
\* of line 610: `with deduplication_lock: delete_thumbnail(deduplicated)`
TL_DeleteDeduplicated ==
    /\ gtm_pc = "delete"
    /\ thumbnail_files' = DictDel(thumbnail_files, TakenOut.deduplicated)
    /\ gtm_pc' = "unlock"
    /\ UNCHANGED <<thumbnail_out, grid_render_queue, thumbnail_sources,
                   thumbnail_cache, extra_thumbnail_cache,
                   thumbnails_being_rendered, thumbnails_to_be_deleted,
                   lockVars, LockOthers>>

\* cache_thumbnail: the end of the `with thumbnail_render_lock:` of line 610
\* and of the call
TL_Unlock ==
    /\ gtm_pc = "unlock"
    /\ thumbnail_render_lock' = NoThread
    /\ thumbnail_out' = Tail(thumbnail_out)
    /\ gtm_pc' = "top"
    /\ UNCHANGED <<grid_render_queue, thumbnail_sources, thumbnail_cache,
                   extra_thumbnail_cache, thumbnails_being_rendered,
                   thumbnails_to_be_deleted, thumbnail_files, other_thumbnail,
                   LockOthers>>

\* mark_thumbnail_rendered, render.py:427: `with thumbnail_render_lock:` for
\* the oldest cell of grid_render_queue, once it is rendered
TL_MarkLock ==
    /\ grid_render_queue # <<>>
    /\ thumbnail_render_lock = NoThread
    /\ thumbnail_render_lock' = "GridRenderManager"
    /\ UNCHANGED <<gtm_pc, thumbnail_out, grid_render_queue, thumbnail_sources,
                   thumbnail_cache, extra_thumbnail_cache,
                   thumbnails_being_rendered, thumbnails_to_be_deleted,
                   thumbnail_files, other_thumbnail, LockOthers>>

\* mark_thumbnail_rendered, render.py:428-441: the body and the release
TL_Mark ==
    /\ thumbnail_render_lock = "GridRenderManager"
    /\ LET job == Head(grid_render_queue) IN
       /\ ~MarkRaises(job.source, job.thumbnail)
       /\ thumbnails_being_rendered' = MarkedBeingRendered(job.source, job.thumbnail)
       /\ extra_thumbnail_cache' = MarkedExtraCache(job.source, job.thumbnail)
    /\ grid_render_queue' = Tail(grid_render_queue)
    /\ thumbnail_render_lock' = NoThread
    /\ UNCHANGED <<gtm_pc, thumbnail_out, thumbnail_sources, thumbnail_cache,
                   thumbnails_to_be_deleted, thumbnail_files, other_thumbnail,
                   LockOthers>>

\* What GridThumbnailManager does of itself; a thumbnail is generated only
\* if a cell is displayed that has none.
LockCaching ==
    \/ TL_DeleteDeferred
    \/ TL_Forward
    \/ TL_EvictTest
    \/ TL_EvictLater
    \/ TL_EvictQueue
    \/ TL_EvictNow
    \/ TL_Link
    \/ TL_Relink
    \/ TL_DeleteDeduplicated
    \/ TL_Unlock
LockThumbnailManager ==
    \/ \E source \in Sources, pixels \in 1..MaxLockPixels :
           TL_Generate(source, pixels)
    \/ LockCaching
LockRenderManager ==
    \/ TL_MarkLock
    \/ TL_Mark
LockNext == LockThumbnailManager \/ LockRenderManager

\* Both managers are threads that run whenever they can; nothing makes the
\* user display another cell.
LockSpec ==
    /\ CacheSpecInit
    /\ [][LockNext]_vars
    /\ WF_vars(LockCaching)
    /\ WF_vars(LockRenderManager)

\* --------------------------------------------------------------- properties

\* MainThread is inside resync_grid_rendering().
InResync == ui_pc \in {"clearT", "waitR", "waitT", "putR", "putT"}

\* C1: a call of resync_grid_rendering() made with the grid active does not
\* deadlock: while MainThread is inside the call some thread can take a step
\* (MainThread itself, a manager in or on its way to its resync block, the
\* renderer or the thumbnailer).
C1_ResyncDoesNotDeadlock == InResync => ENABLED Next

\* The batch in which MainThread made a request of epoch ep: the initial batch
\* number advanced once a resync.
BatchOfEpoch(ep) == (batch0 + ep) % BatchModulus

\* The batch number before the current one.
PreviousBatchNo == (grid_batch_no + BatchModulus - 1) % BatchModulus

\* GridRenderManager takes the result r off grid_render_out in this step.
TakesResult(r) ==
    /\ grm_pc = "res"
    /\ grid_renderer_in_sync
    /\ grid_render_out # <<>>
    /\ r = Head(grid_render_out)
    /\ grid_render_out' = Tail(grid_render_out)

\* C2: a grid render result that carries the batch number before the current
\* one is discarded when GridRenderManager takes it: the step writes nothing to
\* the grid cache and marks no thumbnail rendered (thumbnails_being_rendered
\* and extra_thumbnail_cache stay as they are).
C2_StaleResultDiscarded ==
    [][\A r \in Range(grid_render_out) :
          TakesResult(r) /\ r.batch_no = PreviousBatchNo
              => UNCHANGED <<grid_cache, thumbnails_being_rendered,
                             extra_thumbnail_cache>>]_vars

\* C2, the case: GridRenderManager, in sync, is about to take a rendered result
\* of the previous batch whose cell is not in the grid cache and whose
\* thumbnail is marked as being rendered.
C2_Witness ==
    /\ grm_pc = "res"
    /\ grid_renderer_in_sync
    /\ grid_render_out # <<>>
    /\ Head(grid_render_out).batch_no = PreviousBatchNo
    /\ Head(grid_render_out).thumbnail \in DOMAIN thumbnails_being_rendered
    /\ Basename(Head(grid_render_out).source) \notin DOMAIN grid_cache



\* C3: no job or result that originated in a prior batch reaches the grid
\* cache: every canvas of the grid cache was requested in the batch it was
\* rendered under, and so was every job GridRenderManager has dispatched.
C3_NoPriorBatchReachesGridCache ==
    /\ \A k \in DOMAIN grid_cache :
           grid_cache[k] # RenderingMark
               => grid_cache[k].batch_no = BatchOfEpoch(grid_cache[k].ep)
    /\ \A i \in DOMAIN grid_render_in :
           grid_render_in[i].batch_no = BatchOfEpoch(grid_render_in[i].ep)


\* C4: the thumbnail cache never maps more sources than the configured
\* maximum.
C4_CacheWithinMaximum ==
    Cardinality(DOMAIN thumbnail_cache) <= THUMBNAIL_CACHE_SIZE


\* The thumbnail files deleted in this step.
DeletedFiles == (DOMAIN thumbnail_files) \ DOMAIN thumbnail_files'

\* The grid render worker holds a job that reads thumbnail file t.
WorkerReads(t) == worker_job # NoJob /\ worker_job.thumbnail = t

\* C5: no step deletes a thumbnail file that the grid render worker holds a
\* job for.
C5_NoDeletionWhileWorkerReads ==
    [][\A t \in DeletedFiles : ~WorkerReads(t)]_vars


\* C1, the batch number: whenever GridRenderManager is in sync and outside its
\* resync block, grid_batch_no is the initial batch number advanced once for
\* each call of resync_grid_rendering(), modulo 1000.
C1_BatchNoAdvancesOnce ==
    grid_renderer_in_sync /\ grm_pc \in {"top", "job", "res"}
        => grid_batch_no = BatchOfEpoch(resyncs)


\* The thumbnail files that are not queued up to be deleted.
KeptFiles == (DOMAIN thumbnail_files) \ thumbnails_to_be_deleted

\* The thumbnails of the pixel-identical /d/a and /d/b, and of no other
\* source, have been generated and taken by GridThumbnailManager, the
\* generator is idle and no thumbnail is in the render pipeline.
BothProcessed ==
    /\ processed = {"/d/a", "/d/b"}
    /\ gtm_pc # "raised"
    /\ thumbnail_in = <<>> /\ thumbnail_out = <<>> /\ gen_pc = "get"
    /\ thumbnails_being_rendered = EmptyDict

C10_RequestedOnce ==
    \A s \in Sources :
        /\ enqueued[s] <= 1
        /\ enqueued[s] = 1 =>
               \/ ui_pc = "mark" /\ ui_src = s
               \/ Basename(s) \in DOMAIN grid_cache

\* C10, the case: a source has been requested, its canvas is in the grid cache
\* and MainThread can request cells again.
C10_Witness ==
    /\ ui_pc = "idle" /\ grid_active /\ requests < MaxRequests
    /\ enqueued["/d/a"] = 1
    /\ "a" \in DOMAIN grid_cache /\ grid_cache["a"] # RenderingMark


\* ------------------------------------------------ properties of the scan

\* The directories one step below d: its subdirectories and the targets of
\* its links; the directories any number of steps below the directories of S.
Below(d) ==
    {y \in fs.dirs \ {d} : Dirname(y) = d}
    \cup {l.target : l \in {k \in fs.links : k.dir = d}}
RECURSIVE ReachableFrom(_)
ReachableFrom(S) ==
    LET T == S \cup UNION {Below(d) : d \in S}
    IN IF T = S THEN S ELSE ReachableFrom(T)
\* The links that lead back to a directory from which they are reached.
CyclicSymlinks == {l \in fs.links : l.dir \in ReachableFrom({l.target})}
\* The cyclic links that a scan of the source comes across.
CyclicSymlinksScanned ==
    {l \in CyclicSymlinks : l.dir \in ReachableFrom({SourceDir})}

\* No directory is the working directory of two active calls of check_dir.
NoDirectoryEnteredTwice ==
    \A i, j \in DOMAIN entered : i # j => entered[i] # entered[j]

\* C7: a recursive scan of a tree with a cyclic directory symlink terminates,
\* and no two calls of one chain of nested check_dir calls are in the same
\* resolved directory.
C7_CyclicSymlinkTerminates ==
    /\ [](Recursive /\ CyclicSymlinksScanned # {} => NoDirectoryEnteredTwice)
    /\ (Recursive /\ CyclicSymlinksScanned # {} ~> scan_pc = "done")

\* The scan of /a with /a/b -> /z and /z/l -> /a is over: it has followed b
\* and, in /z, has come across l.
C7_Witness ==
    /\ scan_pc = "done"
    /\ Recursive
    /\ MAX_DEPTH = 50
    /\ fs.links = {[dir |-> SourceDir, name |-> <<"b">>, target |-> DirZ],
                   [dir |-> DirZ, name |-> <<"l">>, target |-> SourceDir]}
    /\ scan_result # None
    /\ <<"b">> \in DOMAIN scan_result[1]


\* The directories that are nodes of a content tree, each as the tuple of
\* names that leads to it from the root of the tree.
RECURSIVE Nodes(_)
Nodes(tree) ==
    {<<>>} \cup UNION {{<<k>> \o n : n \in Nodes(tree[k])} :
                          k \in DOMAIN tree \ {Sep}}
ResultNodes == IF scan_result = None THEN {} ELSE Nodes(scan_result[1])

\* p is directory dir or lies below it.
IsWithin(p, dir) == p = dir \/ StartsWith(p, dir \o Sep)

\* The directories a scan of the source has to look into, each with the names
\* that lead to it, the directory it resolves to and the links followed on
\* the way.  A directory is left aside if it lies beyond MAX_DEPTH, if the
\* scan is not recursive, or if it is a link that closes a cycle: its target
\* is, or lies above, the directory of the link or a link followed before.
Walk(names, dir, links) == [names |-> names, dir |-> dir, links |-> links]
ClosesCycle(l, w) ==
    \/ IsWithin(w.dir, l.target)
    \/ \E i \in DOMAIN w.links : IsWithin(w.links[i], l.target)
WalkSteps(w) ==
    IF ~Recursive \/ Len(w.names) + 1 > MAX_DEPTH THEN {}
    ELSE {Walk(Append(w.names, PathBasename(y)), y, w.links) :
            y \in {z \in fs.dirs \ {w.dir} : Dirname(z) = w.dir}}
         \cup {Walk(Append(w.names, l.name), l.target,
                    Append(w.links, Join(w.dir, l.name))) :
                 l \in {k \in fs.links : k.dir = w.dir /\ ~ClosesCycle(k, w)}}
RECURSIVE WalksFrom(_)
WalksFrom(W) ==
    LET V == W \cup UNION {WalkSteps(w) : w \in W}
    IN IF V = W THEN W ELSE WalksFrom(V)
Walks == WalksFrom({Walk(<<>>, SourceDir, <<>>)})

\* The walks that hold, or lead on to, a file the decoder accepts.
IsPrefix(s, t) == Len(s) <= Len(t) /\ SubSeq(t, 1, Len(s)) = s
WithImages ==
    {w.names : w \in {v \in Walks : \E u \in Walks :
                        IsPrefix(v.names, u.names) /\ u.dir \in fs.images}}

\* C8: when the scan is over, a directory is a node of the content tree if and
\* only if it, or a directory below it, holds a file the decoder accepts
\* (directories beyond MAX_DEPTH and links that close a cycle aside).
C8_NodeIffDecodableFileBelow == scan_pc = "done" => ResultNodes = WithImages

\* The content tree {"/": True, "c": {"/": True}}
ScenarioResult == (Sep :> TRUE) @@ (<<"c">> :> (Sep :> TRUE))
\* The file system is that of the scenario, whatever lies outside /a.
IsScenario ==
    /\ fs.dirs = ScenarioTree.dirs
    /\ fs.links = ScenarioTree.links
    /\ {SourceDir, DirC} \subseteq fs.images
    /\ Recursive
    /\ MAX_DEPTH = 50

\* C9: the recursive scan, with max depth 50, of /a that holds /a/img.png,
\* /a/b -> /a and /a/c/img2.png returns exactly
\* {"/": True, "c": {"/": True}}.
C9_ScenarioTree ==
    IsScenario /\ scan_pc = "done" => scan_result = <<ScenarioResult>>

\* The scan of the scenario is over.
C9_Witness == IsScenario /\ scan_pc = "done" /\ scan_result # None


\* --------------------------------------- properties of the parallel scan

\* Checker n has taken a directory off dir_queue and has not put its result
\* on content_queue.
HoldsJob(n) ==
    /\ chk_pc[n] \in {"busy", "taken", "announce", "announce_put", "check",
                      "deliver", "deliver_put"}
    /\ chk_job[n].subdir # NoSource

\* C11: when CheckManager deals with a terminated checker that had taken a
\* directory off dir_queue and not delivered its result, the directory is on
\* dir_queue afterwards.
C11_JobOfDeadCheckerRequeued ==
    [][mgr_pc = "terminated" /\ Truthy(checks_in_progress[mgr_n])
       /\ ~chk_alive[mgr_n] /\ HoldsJob(mgr_n)
       => chk_job[mgr_n] \in Range(dir_queue')]_vars

\* C12: when manage_checkers has returned and every checker was terminated,
\* one of them with a directory it had not delivered, `contents` is empty and
\* no directory source is in `images`.
C12_AllCheckersDeadIsFailure ==
    /\ mgr_pc \in {"done", "failed"}
    /\ \A n \in CheckerNos : ~chk_alive[n]
    /\ \E n \in CheckerNos : HoldsJob(n)
    => contents = {} /\ dir_images = {}

\* C13: when CheckManager leaves its loop because all checks are done, no
\* live checker holds a directory it has taken off dir_queue, and no directory
\* and no result is queued.
C13_DoneOnlyWhenAllProcessed ==
    [][mgr_pc = "while" /\ mgr_pc' = "finally" /\ AnyCheck
       => /\ \A n \in CheckerNos : IsAlive(n) => ~HoldsJob(n)
          /\ dir_queue = <<>>
          /\ content_queue = <<>>]_vars


\* ------------------------------------------------- failed thumbnails (C14)

\* The item a queue.put() has just added.

TakesSource(job) ==
    /\ gtm_pc = "job"
    /\ grid_thumbnailer_in_sync
    /\ grid_active
    /\ grid_thumbnail_queue # <<>>
    /\ job = Head(grid_thumbnail_queue)
    /\ job.source # NoSource
    /\ grid_thumbnail_queue' = Tail(grid_thumbnail_queue)

\* C15: once GridThumbnailer has ended because the thumbnail directory could
\* not be made, the thumbnail subsystem renders full-size: every source
\* GridThumbnailManager takes off grid_thumbnail_queue while the grid is active
\* is put on grid_render_queue as (source, None), on its way to a grid-cache
\* entry, and none is left waiting for the generator.
C15_DegradesToFullSize ==
    [][\A job \in Range(grid_thumbnail_queue) :
          gen_pc = "raised" /\ TakesSource(job)
              => /\ grid_render_queue' = Append(grid_render_queue,
                        RenderJob(job.source, NoThumb, job.ep))
                 /\ thumbnail_in' = thumbnail_in]_vars


\* ------------------------------------------- the temporary directory (C16)

\* C16: however cli.main ends (return, KeyboardInterrupt, another exception),
\* __main__.main does not return with the temporary data directory still
\* there, and the directory is not removed while LoadingIndicator or
\* MultiLogger is still running.
C16_TempDirRemoved ==
    [][/\ main_pc' = "returned" => ~temp_dir'
       /\ temp_dir /\ ~temp_dir'
          => loading_indicator # "running" /\ multi_logger # "running"]_vars


\* ------------------------------------------- shutdown of the workers (C17)

\* C17: when a render manager has gone through its `finally`, it has put one
\* sentinel per worker, every worker has taken exactly one sentinel and has
\* ended by it, and nothing is left on the input queue; and the sentinels are
\* put on an input queue that was cleared of jobs.
C17_OneSentinelPerWorker ==
    /\ rm_pc = "done"
       => /\ sentinels = Cardinality(Renderers(rm_kind))
          /\ \A w \in Renderers(rm_kind) :
                rw_pc[w] = "exited" /\ rw_taken[w] = 1
          /\ render_in = <<>>
    /\ rm_pc \in {"sentinels", "clear_out", "join"}
       => \A i \in DOMAIN render_in : render_in[i] = Sentinel

\* --------------------------------------------- failures in a worker (C18)

\* The renderers of images, grid cells and frames (the thumbnailer is not one
\* of them).
IsRenderer == rm_kind \in {"image", "grid", "anim"}

\* C18: a render worker that has taken a job goes back to take the next one,
\* and a worker that renders (a job, or the next frame) puts exactly one
\* result for it on the output queue in that step.
C18_WorkerLoopNeverEnds ==
    [][IsRenderer =>
         \A w \in Renderers(rm_kind) :
            /\ rw_pc[w] \in {"render", "data", "frame"} /\ rw_pc'[w] # rw_pc[w]
               => rw_pc'[w] = "get"
            /\ rw_pc[w] \in {"render", "frame"} /\ rw_pc'[w] # rw_pc[w]
               => \E render \in BOOLEAN :
                     render_out' = Append(render_out,
                                          WorkerResult(rw_job[w].id, render))]_vars


\* --------------------------------------------- a fault logged once (C19)

\* C19: whatever the widgets request and whichever results are skipped, the
\* fault of an image that cannot be rendered is logged at most once for its
\* widget.
C19_FaultLoggedOnce == \A w \in Widgets : fault_logs[w] <= 1


\* ------------------------------------------ the order of a listing (C20)

Stem(entry) == casefold(lstrip(entry.name))
IsHidden(entry) == Head(entry.name) = Dot
SameGroup(a, b) == a.is_file = b.is_file

\* C20: in a sorted listing the entries of one kind are in one run; within a
\* kind the entries are in the order of their names without leading dots and
\* without case; and a hidden entry stands before the non-hidden entries of
\* its kind and stem, with only entries of that stem in between.
C20_SortKeyLexiOrder ==
    \A i, j \in DOMAIN _entries :
        i < j =>
            LET a == _entries[i]
                b == _entries[j]
            IN  /\ \A k \in i..j : SameGroup(a, b) => SameGroup(a, _entries[k])
                /\ SameGroup(a, b) => ~StrLess(Stem(b), Stem(a))
                /\ SameGroup(a, b) /\ Stem(a) = Stem(b) /\ IsHidden(b)
                       => IsHidden(a)
                /\ SameGroup(a, b) /\ Stem(a) = Stem(b)
                       => \A k \in i..j : Stem(_entries[k]) = Stem(a)

\* A sorted listing of a directory, a hidden file and a non-hidden file of
\* the same stem in another case.
C20_Witness ==
    /\ Len(_entries) = 3
    /\ ~_entries[1].is_file
    /\ _entries[2] = Listed(<<Dot, 97>>, TRUE)
    /\ _entries[3] = Listed(<<65>>, TRUE)


\* ------------------------------------------ the resumed menu scan (C21)

\* The list objects that are the menu list of a directory being displayed.
MenuLists == {frames[i].items : i \in DOMAIN frames}
NoDuplicate(items) ==
    \A i, j \in DOMAIN items : items[i].name = items[j].name => i = j

\* C21: whatever directories are entered and left, the menu list of a
\* displayed directory never holds an entry twice.
C21_NoEntryListedTwice == \A l \in MenuLists : NoDuplicate(lists[l])


\* ------------------------------------- the halt of the scans (C22, C23)

\* MenuScanner is in its scan, or about to start one: it reads menu_change
\* before it waits for the next menu.
MenuScannerWillAcknowledge ==
    \/ ms_pc # "get"
    \/ next_menu # <<>> /\ ~Head(next_menu).menu_is_complete

\* C22: while display_images waits on menu_acknowledge for a menu change it
\* has requested, MenuScanner is on its way to set it: the wait never
\* lasts for ever.
C22_MenuChangeAcknowledged ==
    nav_pc = "menu_wait" /\ ~menu_acknowledge => MenuScannerWillAcknowledge

\* GridScanner is in its scan, or about to start one: it sets
\* grid_acknowledge before it waits for the next grid.
GridScannerWillAcknowledge == gs_pc = "get" => next_grid # <<>>

\* C23: while display_images waits on grid_acknowledge for the halt of the
\* grid scan, GridScanner, if it has not ended with an exception, is on its
\* way to set it: the wait never lasts for ever.
C23_GridHaltAcknowledged ==
    nav_pc = "grid_wait" /\ ~grid_acknowledge /\ gs_pc # "raised"
        => GridScannerWillAcknowledge


\* GridThumbnailManager clears extra_thumbnail_cache and
\* thumbnails_being_rendered in this step (render.py:678-679).
ClearsShared == gtm_pc = "rs_clear" /\ gtm_pc' = "rs_in"

\* The clears of the shared bookkeeping GridThumbnailManager has made: one in
\* each resync block it entered, the block it is in counted once it is past
\* the clear.
SharedClears ==
    IF gtm_pc \in {"rs_waitR", "rs_clear"} THEN gtm_resyncs - 1 ELSE gtm_resyncs

\* GridRenderManager calls mark_thumbnail_rendered for result r in this step:
\* it reads and updates thumbnails_being_rendered and extra_thumbnail_cache.
MarksRendered(r) ==
    TakesResult(r) /\ ResultIsCurrent(r) /\ r.thumbnail # NoThumb

\* C24, the order of the clear: GridThumbnailManager clears the shared
\* bookkeeping in its n-th resync block only after GridRenderManager has
\* entered its own n-th resync block.
ClearAfterRendererStarted == [][ClearsShared => grm_resyncs >= gtm_resyncs]_vars

\* C24: in every resync GridThumbnailManager clears the shared bookkeeping only
\* after GridRenderManager has started the same resync, and GridRenderManager
\* never marks a thumbnail rendered for a result whose cell was requested
\* before a resync whose clear has been made (an old-batch result).
C24_BookkeepingClearedInOrder ==
    [][/\ ClearsShared => grm_resyncs >= gtm_resyncs
       /\ \A r \in Range(grid_render_out) :
              MarksRendered(r) => r.ep >= SharedClears]_vars


\* The batch delimiters on a queue.
Delimiters(queue, delimiter) == {i \in DOMAIN queue : queue[i] = delimiter}

\* MainThread puts a batch delimiter on a queue in this step.
PutsDelimiter ==
    \/ Len(grid_render_queue') > Len(grid_render_queue)
           /\ Last(grid_render_queue') = RenderDelimiter
    \/ Len(grid_thumbnail_queue') > Len(grid_thumbnail_queue)
           /\ Last(grid_thumbnail_queue') = ThumbDelimiter

\* A manager takes a batch delimiter off its queue as a job in this step.
TakesDelimiterAsJob ==
    \/ /\ grm_pc = "job" /\ grid_render_queue # <<>>
       /\ Head(grid_render_queue) = RenderDelimiter
       /\ grid_render_queue' = Tail(grid_render_queue)
    \/ /\ gtm_pc = "job" /\ grid_thumbnail_queue # <<>>
       /\ Head(grid_thumbnail_queue) = ThumbDelimiter
       /\ grid_thumbnail_queue' = Tail(grid_thumbnail_queue)

\* The delimiters are put after both managers have entered the resync block of
\* this call of resync_grid_rendering().
DelimiterAfterBothStarted ==
    [][PutsDelimiter => grm_resyncs = resyncs /\ gtm_resyncs = resyncs]_vars

\* No manager takes a delimiter as a job.
NoDelimiterTakenAsJob == [][~TakesDelimiterAsJob]_vars

\* A queue holds at most one delimiter, and only while its manager is in the
\* resync block whose purge loop takes it.
DelimiterIsPurged ==
    /\ Cardinality(Delimiters(grid_render_queue, RenderDelimiter)) <= 1
    /\ Cardinality(Delimiters(grid_thumbnail_queue, ThumbDelimiter)) <= 1
    /\ Delimiters(grid_render_queue, RenderDelimiter) # {}
           => grm_pc \in {"rs_in", "rs_out", "rs_purge"}
    /\ Delimiters(grid_thumbnail_queue, ThumbDelimiter) # {}
           => gtm_pc \in {"rs_waitR", "rs_clear", "rs_in", "rs_notgen",
                          "rs_drain", "rs_del", "rs_purge"}


\* C25: MainThread puts the batch delimiters only after both managers have
\* entered the resync block of the call, a queue never holds more than one
\* delimiter, the delimiter is on the queue only while its manager is in the
\* resync block whose purge loop consumes it, and no manager takes a delimiter
\* as a job.
C25_OneDelimiterPerResync ==
    [][/\ PutsDelimiter => grm_resyncs = resyncs /\ gtm_resyncs = resyncs
       /\ ~TakesDelimiterAsJob
       /\ DelimiterIsPurged']_vars


\* GridRenderManager takes job j off grid_render_queue and sends it to the
\* renderers in this step (render.py:510-518).
TakesJob(j) ==
    /\ grm_pc = "job" /\ grid_renderer_in_sync /\ grid_active
    /\ grid_render_queue # <<>>
    /\ j = Head(grid_render_queue)
    /\ j # RenderDelimiter
    /\ grid_render_queue' = Tail(grid_render_queue)

\* On grid_render_queue the jobs in front of the delimiter of the resync
\* GridRenderManager is in were requested before that resync, those behind it
\* after.
JobsSplitByDelimiter ==
    \A d \in Delimiters(grid_render_queue, RenderDelimiter) :
        \A i \in DOMAIN grid_render_queue :
            /\ i < d => grid_render_queue[i].ep < grm_resyncs
            /\ i > d => grid_render_queue[i].ep >= grm_resyncs

\* C26: on grid_render_queue no job of the old batch is behind the delimiter
\* of a resync and no job of the new batch in front of it, and every job
\* GridRenderManager takes after a resync block was requested after the call
\* of resync_grid_rendering() that the block answered.
C26_JobsBelongToNewBatch ==
    [][/\ JobsSplitByDelimiter'
       /\ \A j \in Range(grid_render_queue) : TakesJob(j) => j.ep = grm_resyncs]_vars


\* The other half of C26: no job requested after a resync is in front of the
\* delimiter of that resync.
NoNewJobBeforeDelimiter ==
    \A d \in Delimiters(grid_render_queue, RenderDelimiter) :
        \A i \in DOMAIN grid_render_queue :
            i < d => grid_render_queue[i].ep < grm_resyncs

\* C27: a grid manager enters a resync block only in response to a clear of
\* its in-sync flag by resync_grid_rendering(): each manager has entered at
\* most one block for every call made, so none at start-up, before the first
\* call, when no delimiter is on its way.
C27_ResyncOnlyOnRequest ==
    /\ grm_resyncs <= resyncs
    /\ gtm_resyncs <= resyncs

\* C27, the case: the grid was opened, both managers found their flags set and
\* went on, and after the first call of resync_grid_rendering() both are in
\* their first resync block.
C27_Witness ==
    /\ resyncs = 1
    /\ grm_resyncs = 1 /\ grm_pc = "rs_in"
    /\ gtm_resyncs = 1 /\ gtm_pc = "rs_waitR"


\* ImageRenderManager sends a job for widget w to ImageRenderer in this step.
SendsImageJob(w) ==
    /\ irm_pc = "get" /\ irm_pc' = "result"
    /\ image_render_queue # <<>> /\ w = Head(image_render_queue)

\* ImageRenderManager installs a result on widget w in this step.
InstallsResult(w) == irm_pc \in {"install", "install_faulty"} /\ w = image_w

\* C28: ImageRenderManager sends a job only for the displayed widget with no
\* newer request queued, and never installs a result on a widget that is not
\* the displayed one.
C28_ResultOnDisplayedWidgetOnly ==
    [][\A w \in Widgets :
          /\ SendsImageJob(w) => w = image_box /\ image_render_queue' = <<>>
          /\ InstallsResult(w) => w = image_box]_vars


\* AnimRenderManager sends an animation (a new image or a change of size) to
\* FrameRenderer in this step.
SendsAnimation == arm_pc = "dispatch" /\ arm_pc' = "next_frame"

\* The reset handshake is complete: FrameRenderer has closed its animator and
\* set `ready`, it renders no frame and has nothing but reset tokens to take,
\* and nothing is left of what it put on frame_render_out.
ResetComplete ==
    /\ ready
    /\ animator = 0
    /\ fr_pc # "frame"
    /\ frame_render_out = <<>>
    /\ frame_render_out_buffer = <<>>
    /\ \A i \in DOMAIN frame_render_in : frame_render_in[i] = ResetToken
    /\ fr_pc = "data" => fr_data = ResetToken

\* next_frame() takes frame f off frame_render_out in this step.
ReceivesFrame(f) ==
    /\ arm_pc = "next_frame"
    /\ frame_render_out # <<>>
    /\ f = Head(frame_render_out)
    /\ frame_render_out' = Tail(frame_render_out)

\* C29: AnimRenderManager sends an animation to FrameRenderer only when the
\* reset handshake is complete (the worker has closed its animator and set
\* `ready`, frame_render_out is drained), and every frame next_frame()
\* receives was rendered for the animation sent last, never for an earlier one.
C29_NoFrameOfPreviousSubject ==
    [][/\ SendsAnimation => ResetComplete
       /\ \A f \in Range(frame_render_out) : ReceivesFrame(f) => f.id = frame_jobs]_vars

\* cache_thumbnail(source, thumbnail, None) runs in this step with the cache
\* full: GridThumbnailManager caches a generated thumbnail that is no copy.
CachesOnFull ==
    /\ gtm_pc = "fwd"
    /\ Head(thumbnail_out).thumbnail # NoThumb
    /\ Head(thumbnail_out).deduplicated = NoThumb
    /\ CacheIsFull(thumbnail_sources)
    /\ thumbnail_out' = Tail(thumbnail_out)

\* Entry i of thumbnail_sources has the fewest linked sources and is the
\* oldest of the entries that have as few.
FewestOldest(i) ==
    \A j \in DOMAIN thumbnail_sources : j # i =>
        \/ Len(thumbnail_sources[i].sources) < Len(thumbnail_sources[j].sources)
        \/ /\ Len(thumbnail_sources[i].sources) = Len(thumbnail_sources[j].sources)
           /\ i < j

\* Entry i, and no other, leaves thumbnail_sources in this step and all its
\* sources leave thumbnail_cache (the source being cached is linked anew).
Evicted(i) ==
    /\ thumbnail_sources[i].thumbnail \notin SourcesKeys(thumbnail_sources')
    /\ \A j \in DOMAIN thumbnail_sources :
           j # i => thumbnail_sources[j] \in Range(thumbnail_sources')
    /\ \A s \in Range(thumbnail_sources[i].sources) :
           s \in DOMAIN thumbnail_cache' => s = Head(thumbnail_out).source
    /\ \A s \in DOMAIN thumbnail_cache' :
           thumbnail_cache'[s] # thumbnail_sources[i].thumbnail

\* The file of thumbnail t is kept for the cells in the render pipeline, and
\* queued for deletion.
DeletedLater(t) ==
    /\ \A s \in thumbnails_being_rendered[t] :
           s \in DOMAIN extra_thumbnail_cache' /\ extra_thumbnail_cache'[s] = t
    /\ t \in thumbnails_to_be_deleted'
    /\ t \in DOMAIN thumbnail_files'

\* The file of thumbnail t is deleted in this step.
DeletedAtOnce(t) ==
    /\ t \in DOMAIN thumbnail_files
    /\ t \notin DOMAIN thumbnail_files'
    /\ t \notin thumbnails_to_be_deleted'

\* C30: when cache_thumbnail gets a thumbnail that is no copy and the cache is
\* full, the entry with the fewest linked sources, the oldest of these, is
\* evicted: all its sources leave thumbnail_cache; if the thumbnail is in the
\* render pipeline its sources in the pipeline go to extra_thumbnail_cache and
\* the file is queued in thumbnails_to_be_deleted, otherwise the file is
\* deleted at once.
C30_EvictsFewestOldest ==
    [][CachesOnFull =>
          \E i \in DOMAIN thumbnail_sources :
              /\ FewestOldest(i)
              /\ Evicted(i)
              /\ IF thumbnail_sources[i].thumbnail \in DOMAIN thumbnails_being_rendered
                 THEN DeletedLater(thumbnail_sources[i].thumbnail)
                 ELSE DeletedAtOnce(thumbnail_sources[i].thumbnail)]_vars


\* Source s is linked to thumbnail t in thumbnail_sources.
LinkedIn(s, t) ==
    \E i \in DOMAIN thumbnail_sources :
        /\ thumbnail_sources[i].thumbnail = t
        /\ s \in Range(thumbnail_sources[i].sources)

\* C33: thumbnail_cache and thumbnail_sources are consistent: a source s is
\* mapped to thumbnail t in thumbnail_cache if and only if s is among the
\* sources of t in thumbnail_sources, and the eviction of any entry would find
\* each of its sources in thumbnail_cache (no KeyError in
\* `del thumbnail_cache[other_source]`, render.py:584-585, 591-594).
C33_CacheConsistent ==
    /\ \A s \in DOMAIN thumbnail_cache : LinkedIn(s, thumbnail_cache[s])
    /\ \A i \in DOMAIN thumbnail_sources :
           /\ \A s \in Range(thumbnail_sources[i].sources) :
                  /\ s \in DOMAIN thumbnail_cache
                  /\ thumbnail_cache[s] = thumbnail_sources[i].thumbnail
           /\ ~UnlinkRaises(thumbnail_cache, thumbnail_sources[i].sources)

\* C34: the null thumbnail of a failed generation is never cached:
\* thumbnail_cache has no null value and thumbnail_sources has no null key,
\* whether the result was taken in the loop or drained in the resync block.
C34_NoNullThumbnailCached ==
    /\ NoThumb \notin SourcesKeys(thumbnail_sources)
    /\ \A s \in DOMAIN thumbnail_cache : thumbnail_cache[s] # NoThumb


\* C35: when GridRenderManager applies a result of the current batch that
\* carries a thumbnail, the source is a member of
\* thumbnails_being_rendered[thumbnail] (mark_thumbnail_rendered finds the key
\* and the source), and thumbnails_being_rendered keeps no key whose set of
\* sources is empty.
C35_MarkedSourceIsBeingRendered ==
    [][/\ \A r \in Range(grid_render_out) :
              MarksRendered(r) =>
                  /\ r.thumbnail \in DOMAIN thumbnails_being_rendered
                  /\ r.source \in thumbnails_being_rendered[r.thumbnail]
       /\ \A t \in DOMAIN thumbnails_being_rendered' :
              thumbnails_being_rendered'[t] # {}]_vars


\* ImageRenderManager holds the job of widget w: taken, not yet handled.
InHand(w) == irm_pc # "get" /\ image_w = w

\* The jobs of widget w that are queued or held by ImageRenderManager.
PendingJobs(w) ==
    Cardinality({i \in DOMAIN image_render_queue : image_render_queue[i] = w})
        + (IF InHand(w) THEN 1 ELSE 0)

\* ImageRenderManager is done with a job of widget w in this step: skipped
\* when taken, or rendered and then installed or dropped.
HandlesJob(w) ==
    \/ InHand(w) /\ irm_pc' = "get"
    \/ /\ irm_pc = "get" /\ irm_pc' = "get"
       /\ image_render_queue # <<>>
       /\ Head(image_render_queue) = w
       /\ image_render_queue' = Tail(image_render_queue)

\* C37: for every job ImageRenderManager takes, the mark _ti_rendering of the
\* widget is removed exactly once: the step that is done with the job (a skip
\* when taken, an installed or a dropped result) finds the mark set and
\* removes it, and a widget is marked exactly while it has one job queued or
\* in the manager's hands, never more than one.
C37_RenderingMarkRemovedOnce ==
    [][\A w \in Widgets :
          /\ HandlesJob(w) => _ti_rendering[w] /\ ~_ti_rendering'[w]
          /\ _ti_rendering'[w] <=> PendingJobs(w)' = 1
          /\ PendingJobs(w)' <= 1]_vars

\* The job of w2 was taken and handled without being installed (skipped or
\* dropped as stale), and w2 has lost its mark.
C37_Witness ==
    /\ irm_pc = "get"
    /\ image_w = "w2"
    /\ last_image_w = "w1"
    /\ image_render_queue = <<>>
    /\ ~_ti_rendering["w2"]


\* C38: check_dir leaves the scan state as it found it: while the scan runs,
\* _depth is the number of active calls and the working directory is the
\* directory of the innermost call, whatever calls have returned before (with
\* a result, empty, from a directory that cannot be entered or from one that
\* cannot be listed); when the scan is done _depth is 0 and the working
\* directory is the caller's.
C38_DepthAndCwdRestored ==
    /\ scan_pc = "scan" =>
           /\ stack # <<>>
           /\ _depth = Len(stack)
           /\ cwd = Top.dir
    /\ scan_pc = "done" => _depth = 0 /\ cwd = Sep


\* ------------------------------------------- the grid list of a selection
\* display_images makes one list per selection of a directory, right after
\* the selection's next_grid.put(), and no list is made elsewhere: the list
\* of the job scan_dir_grid holds is the newest one, but for the jobs still
\* in next_grid and for a selection whose `_grid_list = []` is yet to run.
SelectionList ==
    Len(lists) + (IF nav_pc = "sel_list" THEN 1 ELSE 0) - Len(next_grid)

\* scan_dir_grid: grid_list.append(item)
GS_Appends ==
    /\ gs_pc = "next"
    /\ gs_pc' = "check_next"
    /\ gs_entries' # gs_entries
    /\ lists' # lists

\* C39: GridScanner appends the entries of a directory only to the list that
\* display_images created for the selection of that directory, never to the
\* list of an earlier selection.
C39_AppendsToFreshList ==
    [][GS_Appends => grid_list = SelectionList]_vars


\* display_images, a directory entry: the return of grid_acknowledge.wait()
Nav_SelWaitReturns == nav_pc = "sel_wait" /\ nav_pc' = "yield"

\* scan_dir_grid has run `next_grid.get()` for the newest selection and the
\* `grid_contents.clear()` that follows it.
GridClearedForSelection == next_grid = <<>> /\ gs_pc \notin {"list", "ack"}

\* C40: when the wait on grid_acknowledge of a selection returns, GridScanner
\* has taken the selected directory from next_grid and cleared the grid
\* contents for it; the acknowledgement of an earlier, halted scan is never
\* taken for it.
C40_AcknowledgedSelection ==
    [][Nav_SelWaitReturns => GridClearedForSelection]_vars


\* The merges of checkers' results into the content tree of a source: any
\* result for any sub-directory, in any order.
MergeSpecInit ==
    /\ GridInit
    /\ grid_batch_no = 0
    /\ CheckerInit
    /\ ParallelInit
    /\ SessionInit
    /\ RenderInit("grid")
    /\ ImageInit({})
    /\ SortInit
    /\ NavInit
    /\ AnimInit(FALSE)
    /\ MergeInit({SourceDir, <<>>})
    /\ LockInit
    /\ fs = ScenarioTree
    /\ Recursive = TRUE
    /\ MAX_DEPTH = 50
MergeNext ==
    \E subdir \in MergedSubDirs(SourceDir) \cup MergedSubDirs(<<>>),
       subcontents \in Results(MaxResultDepth) :
        /\ subdir \in MergedSubDirs(source_dir)
        /\ UpdateContents(subdir, subcontents)
MergeSpec == MergeSpecInit /\ [][MergeNext]_vars

\* The keys of a content tree, each as the tuple of the keys that lead to it.
RECURSIVE KeyPaths(_)
KeyPaths(tree) ==
    UNION {{<<key>>} \cup (IF key = Sep THEN {}
                           ELSE {<<key>> \o p : p \in KeyPaths(tree[key])}) :
               key \in DOMAIN tree}

\* The keys that lead to the target of the last call, target included.
TargetPath == BranchPath(source_dir, last_subdir)
UnderTarget(p) == IsPrefix(TargetPath, p) /\ p # TargetPath
WithinTarget(p) == SubSeq(p, Len(TargetPath) + 1, Len(p))

\* C32: a call of update_contents keeps every key of the content tree; under
\* the target it adds the keys of the result and no other, so that what both
\* have is merged at every depth; outside the target it adds the branches
\* that lead to the target and nothing else; the same call made again
\* changes nothing.
C32_MergesWithoutOverwriting ==
    [][n_updates' = n_updates + 1 =>
        LET before == KeyPaths(source_contents)
            after == KeyPaths(source_contents)'
        IN  /\ before \subseteq after
            /\ \A p \in after :
                  /\ UnderTarget(p)' =>
                         p \in before \/ WithinTarget(p)' \in KeyPaths(last_subcontents')
                  /\ ~UnderTarget(p)' => p \in before \/ IsPrefix(p, TargetPath')
            /\ \A p \in KeyPaths(last_subcontents') : TargetPath' \o p \in after
            /\ update_contents(source_dir, source_contents, last_subdir,
                               last_subcontents)' = source_contents'
            /\ (last_subdir' = last_subdir /\ last_subcontents' = last_subcontents)
                   => source_contents' = source_contents]_vars

\* A result has been merged into a target that had keys of its own, one of
\* them a sub-directory that the result has too, with other keys in it.
C32_Witness ==
    /\ n_updates = 3
    /\ source_dir = SourceDir
    /\ last_subdir = Join(SourceDir, <<"b">>)
    /\ DOMAIN last_subcontents = {<<"b">>, <<"c">>}
    /\ DOMAIN source_contents[<<"b">>] = {Sep, <<"b">>, <<"c">>}
    /\ DOMAIN source_contents[<<"b">>][<<"c">>] = {Sep, <<"b">>}


\* GridThumbnailManager removes a thumbnail file.
DeletesThumbnail ==
    \E t \in DOMAIN thumbnail_files : t \notin DOMAIN thumbnail_files'

\* C31: thumbnail_render_lock is held for bookkeeping in memory only: the
\* thread that holds it deletes no thumbnail file (GridRenderManager opens,
\* copies and deletes none at all).
C31_NoFileIOUnderRenderLock ==
    [][DeletesThumbnail => thumbnail_render_lock # "GridThumbnailManager"]_vars


\* The thumbnails of the model, by their file names.
Thumbnails == 1..MaxGenerated

\* No cell that is yet to be rendered shows thumbnail t.
NoRenderJobOf(t) ==
    \A i \in DOMAIN grid_render_queue : grid_render_queue[i].thumbnail # t

\* C36: a thumbnail queued in thumbnails_to_be_deleted that no render job
\* refers to any more is deleted in the end, with no resync made.
C36_QueuedThumbnailIsDeleted ==
    \A t \in Thumbnails :
        (t \in thumbnails_to_be_deleted /\ NoRenderJobOf(t))
            ~> (t \notin thumbnails_to_be_deleted /\ t \notin DOMAIN thumbnail_files)

====
